---- MODULE Spec2Model ----
(***************************************************************************)
(* Input-validation pipeline of vinuchain-lists: path safety, safe JSON    *)
(* parsing, address validation, URL validation and ABI validation.         *)
(*                                                                         *)
(* The validators are functions from arguments to a result record, so the  *)
(* machine below records one call per step: the operation, its arguments,  *)
(* what it returned or threw, the checks it executed, and the state every  *)
(* call shares: the properties of Object.prototype, and lastIndex, the     *)
(* lastIndex property of each pattern object utils/constants.js exports.   *)
(*                                                                         *)
(* A JavaScript string is the sequence of its UTF-16 code units            *)
(* (<<97, 47>> is "a/"); a JavaScript value is [t |-> type, v |-> units],  *)
(* where v is the string itself, or String(value) for a non-string.        *)
(*                                                                         *)
(* safeReadJSON is the one operation that is not a function of its         *)
(* arguments: it makes four system calls on a file other processes can     *)
(* write. file is the file at the path it is given, pc the call the reader *)
(* makes next, local what the reader holds (stats.size and content).       *)
(*                                                                         *)
(* The logger keeps three module-level counters, errorCount, warningCount  *)
(* and infoCount, and reads LOG_FORMAT and DEBUG from the environment env. *)
(* calls counts the calls of error, warn and info made since the counters  *)
(* were last reset, whether they returned or threw.                        *)
(***************************************************************************)
EXTENDS Integers, Sequences, FiniteSets, TLC

VARIABLES op, arg, res, thrown, executed, objectPrototype, lastIndex, file, pc, local,
          errorCount, warningCount, infoCount, env, calls

\* the counters of the logger, the environment it reads, and the calls made
loggerVars == <<errorCount, warningCount, infoCount, env, calls>>

vars == <<op, arg, res, thrown, executed, objectPrototype, lastIndex, file, pc, local,
          loggerVars>>

(* ---------------------------------------------------------------------- *)
(* Bounds of the model                                                     *)
(* ---------------------------------------------------------------------- *)
\* longest file name / contract name drawn
MaxNameLen == 2
\* most parts handed to safePathJoin
MaxParts == 2
\* how many of an address's letters are drawn with their case flipped, one at a time
MaxFlip == 2
\* most nodes (objects, arrays, scalars) of a JSON value drawn
MaxNodes == 3
\* the depth to which the tuples of the ABI parameters drawn nest
MaxTupleDepth == 2
\* most characters after the scheme of a URL handed to validateURLFormat
MaxBodyLen == 2
\* most field names handed to validateURLs
MaxFields == 2
\* most characters of a file's content besides the quotes of a string literal
MaxContentLen == 2
\* longest text handed to sanitizeForTerminal
MaxTextLen == 3
\* most items of an ABI drawn to observe the order of validation
MaxItems == 2
\* most calls of error, of warn and of info between two resets of the counters
MaxCalls == 2

(* ---------------------------------------------------------------------- *)
(* JavaScript values, strings and result records                           *)
(* ---------------------------------------------------------------------- *)
Str(s) == [t |-> "string", v |-> s]

\* values that are not strings, with their String() rendering
NonStrings ==
  { [t |-> "number", v |-> <<49, 50, 51>>],
    [t |-> "null", v |-> <<110, 117, 108, 108>>],
    [t |-> "undefined", v |-> <<117, 110, 100, 101, 102, 105, 110, 101, 100>>] }

\* all strings of length at most n over the code units in alphabet
StringsUpTo(alphabet, n) == UNION { [1..k -> alphabet] : k \in 0..n }

\* String.prototype.includes
includes(s, sub) ==
  \E i \in 1..(Len(s) - Len(sub) + 1) : SubSeq(s, i, i + Len(sub) - 1) = sub

\* String.prototype.startsWith
startsWith(s, prefix) ==
  Len(s) >= Len(prefix) /\ SubSeq(s, 1, Len(prefix)) = prefix

\* a piece of a template literal: fixed text, or an interpolated string
Lit(text) == [lit |-> text, val |-> <<>>]
Val(units) == [lit |-> "", val |-> units]

\* { valid: true } and { valid: false, error }
Ok == [valid |-> TRUE]
Fail(message) == [valid |-> FALSE, error |-> message]

\* how a call ends: it returns a value or throws
Return(value) == [thrown |-> "", value |-> value]
Throw(name, message) == [thrown |-> name, value |-> [message |-> message]]

(* ---------------------------------------------------------------------- *)
(* RegExp.prototype.test on the pattern objects of utils/constants.js.     *)
(* The module creates each pattern once; every call of a validator tests   *)
(* the same object, whose lastIndex property is where a match starts when  *)
(* the pattern has the g flag.                                             *)
(* ---------------------------------------------------------------------- *)
\* every pattern literal of the constants carrying the g flag
RegExpFlags_global(pattern) == "g"

\* the flags of a pattern literal of the constants: none has any
RegExpFlags(pattern) == ""

\* RegExpBuiltinExec: the index a match starts at, the pattern's lastIndex being index
StartIndex(index, pattern) == IF RegExpFlags(pattern) = "g" THEN index ELSE 0

\* RegExpBuiltinExec: the lastIndex a match leaves that ended at end, -1 for a failure
LeaveIndex(index, pattern, end) ==
  IF RegExpFlags(pattern) = "g" THEN (IF end < 0 THEN 0 ELSE end) ELSE index

\* pattern.test(s) for a pattern that begins with ^, matches telling whether
\* s matches it from index 0
test(pattern, matches) == StartIndex(lastIndex[pattern], pattern) = 0 /\ matches

\* the tests of one call in their order, each [pattern, matches, end] for a
\* pattern that begins with ^: whether the string matches from index 0, and
\* where that match ends
NoTests == <<>>
TestOf(pattern, matches, end) ==
  << [pattern |-> pattern, matches |-> matches, end |-> end] >>

RECURSIVE AfterTests(_, _)
\* the lastIndex of every pattern after the tests, index being what they held before
AfterTests(index, tests) ==
  IF tests = <<>> THEN index
  ELSE LET t == Head(tests)
           matched == StartIndex(index[t.pattern], t.pattern) = 0 /\ t.matches
       IN AfterTests([index EXCEPT ![t.pattern] =
                        LeaveIndex(@, t.pattern, IF matched THEN t.end ELSE -1)],
                     Tail(tests))

(* ---------------------------------------------------------------------- *)
(* Node's path module on a POSIX platform (path.sep is "/"), as the        *)
(* validators call it                                                      *)
(* ---------------------------------------------------------------------- *)
\* path.sep
path_sep == <<47>>

\* process.cwd(), against which path.resolve resolves a relative path
Cwd == <<47, 119>>

RECURSIVE SplitFrom(_, _, _)
\* the pieces of s between separators, from index i on; cur is the piece being read
SplitFrom(s, i, cur) ==
  IF i > Len(s) THEN <<cur>>
  ELSE IF s[i] = 47 THEN <<cur>> \o SplitFrom(s, i + 1, <<>>)
  ELSE SplitFrom(s, i + 1, Append(cur, s[i]))

\* the non-empty segments of a path
Segments(s) == SelectSeq(SplitFrom(s, 1, <<>>), LAMBDA x : x # <<>>)

RECURSIVE normalizeSegments(_, _, _)
\* normalizeString: drops ".", lets ".." remove the segment before it
normalizeSegments(segs, acc, allowAboveRoot) ==
  IF segs = <<>> THEN acc
  ELSE LET h == Head(segs)
           t == Tail(segs)
       IN IF h = <<46>> THEN normalizeSegments(t, acc, allowAboveRoot)
          ELSE IF h = <<46, 46>>
            THEN IF acc # <<>> /\ acc[Len(acc)] # <<46, 46>>
                   THEN normalizeSegments(t, SubSeq(acc, 1, Len(acc) - 1), allowAboveRoot)
                 ELSE IF allowAboveRoot
                   THEN normalizeSegments(t, Append(acc, h), allowAboveRoot)
                 ELSE normalizeSegments(t, acc, allowAboveRoot)
          ELSE normalizeSegments(t, Append(acc, h), allowAboveRoot)

RECURSIVE JoinWith(_, _)
\* Array.prototype.join
JoinWith(strs, sep) ==
  IF strs = <<>> THEN <<>>
  ELSE IF Len(strs) = 1 THEN strs[1]
  ELSE strs[1] \o sep \o JoinWith(Tail(strs), sep)

\* path.normalize
path_normalize(p) ==
  IF p = <<>> THEN <<46>>
  ELSE LET isAbsolute == p[1] = 47
           trailingSeparator == p[Len(p)] = 47
           body == JoinWith(normalizeSegments(Segments(p), <<>>, ~isAbsolute), path_sep)
       IN IF body = <<>>
            THEN (IF isAbsolute THEN <<47>> ELSE IF trailingSeparator THEN <<46, 47>> ELSE <<46>>)
          ELSE (IF isAbsolute THEN <<47>> ELSE <<>>) \o body
               \o (IF trailingSeparator THEN <<47>> ELSE <<>>)

\* path.join of strings: the non-empty arguments joined by "/" and normalized
path_join(args) ==
  LET nonEmpty == SelectSeq(args, LAMBDA a : a # <<>>)
  IN IF nonEmpty = <<>> THEN <<46>> ELSE path_normalize(JoinWith(nonEmpty, path_sep))

\* path.resolve of one string: made absolute against the working directory
path_resolve(p) ==
  LET absolute == IF p # <<>> /\ p[1] = 47 THEN p ELSE Cwd \o path_sep \o p
  IN <<47>> \o JoinWith(normalizeSegments(Segments(absolute), <<>>, FALSE), path_sep)

(* ---------------------------------------------------------------------- *)
(* scripts/utils/file-utils.js                                             *)
(* ---------------------------------------------------------------------- *)
\* /[\x00-\x1F\x7F]/.test(s)
HasControlCharacter(s) == \E i \in 1..Len(s) : s[i] \in (0..31) \cup {127}

\* validateSafeFilename without its ".." test
validateSafeFilename_noDotDot(filename) ==
  IF filename.t # "string" THEN Fail(<<Lit("Filename must be a string")>>)
  ELSE IF includes(filename.v, <<47>>) \/ includes(filename.v, <<92>>)
    THEN Fail(<<Lit("Path traversal detected in filename: "), Val(filename.v)>>)
  ELSE IF includes(filename.v, <<0>>)
    THEN Fail(<<Lit("Filename contains null byte")>>)
  ELSE IF HasControlCharacter(filename.v)
    THEN Fail(<<Lit("Filename contains control characters")>>)
  ELSE Ok

validateSafeFilename(filename) ==
  IF filename.t # "string" THEN Fail(<<Lit("Filename must be a string")>>)
  ELSE IF includes(filename.v, <<46, 46>>) \/ includes(filename.v, <<47>>)
          \/ includes(filename.v, <<92>>)
    THEN Fail(<<Lit("Path traversal detected in filename: "), Val(filename.v)>>)
  ELSE IF includes(filename.v, <<0>>)
    THEN Fail(<<Lit("Filename contains null byte")>>)
  ELSE IF HasControlCharacter(filename.v)
    THEN Fail(<<Lit("Filename contains control characters")>>)
  ELSE Ok

IsUpper(c) == c \in 65..90
IsLower(c) == c \in 97..122
IsDigit(c) == c \in 48..57
IsAlnum(c) == IsUpper(c) \/ IsLower(c) \/ IsDigit(c)

\* /^[A-Z][a-zA-Z0-9]*/ : the pattern without its end anchor
SAFE_CONTRACT_NAME_PATTERN_unanchored(s) == Len(s) >= 1 /\ IsUpper(s[1])

\* /^[A-Z][a-zA-Z0-9]*$/.test(s)
SAFE_CONTRACT_NAME_PATTERN(s) ==
  Len(s) >= 1 /\ IsUpper(s[1]) /\ \A i \in 2..Len(s) : IsAlnum(s[i])

validateContractName(contractName) ==
  IF contractName.t # "string" THEN Fail(<<Lit("Contract name must be a string")>>)
  ELSE IF ~test("SAFE_CONTRACT_NAME_PATTERN", SAFE_CONTRACT_NAME_PATTERN(contractName.v))
    THEN Fail(<<Lit("Invalid contract name: "), Val(contractName.v),
                Lit(". Must be PascalCase alphanumeric.")>>)
  ELSE Ok

\* the tests validateContractName(contractName) makes
validateContractName_tests(contractName) ==
  IF contractName.t # "string" THEN NoTests
  ELSE TestOf("SAFE_CONTRACT_NAME_PATTERN", SAFE_CONTRACT_NAME_PATTERN(contractName.v),
              Len(contractName.v))

\* index of the first part validateSafeFilename rejects, 0 when there is none
FirstUnsafePart(parts) ==
  LET bad == { i \in 1..Len(parts) : ~validateSafeFilename(parts[i]).valid }
  IN IF bad = {} THEN 0 ELSE CHOOSE i \in bad : \A j \in bad : i <= j

\* safePathJoin(baseDir, ...parts); the whole body is inside try/catch
safePathJoin(baseDir, parts) ==
  LET bad == FirstUnsafePart(parts)
  IN IF bad # 0 THEN Return(validateSafeFilename(parts[bad]))
     ELSE IF baseDir.t # "string"
       \* path.join throws a TypeError for a non-string argument; caught
       THEN Return(Fail(<<Lit("Path construction failed: "),
                          Lit("The \"path\" argument must be of type string")>>))
     ELSE LET fullPath == path_join(<<baseDir.v>> \o [i \in 1..Len(parts) |-> parts[i].v])
              resolvedPath == path_resolve(fullPath)
              resolvedBase == path_resolve(baseDir.v)
          IN IF ~startsWith(resolvedPath, resolvedBase \o path_sep)
                /\ resolvedPath # resolvedBase
               THEN Return(Fail(<<Lit("Path escapes base directory: "),
                                  Val(JoinWith([i \in 1..Len(parts) |-> parts[i].v], <<47>>))>>))
             ELSE Return([valid |-> TRUE, path |-> fullPath])

(* ---------------------------------------------------------------------- *)
(* scripts/utils/address-validator.js                                      *)
(* ---------------------------------------------------------------------- *)
\* 0x + 40 hex characters
ADDRESS_LENGTH == 42

IsHexDigit(c) == c \in (48..57) \cup (65..70) \cup (97..102)

\* /^0x[a-fA-F0-9]{40}$/.test(s)
ADDRESS_PATTERN(s) ==
  /\ Len(s) = 2 + 40
  /\ s[1] = 48
  /\ s[2] = 120
  /\ \A i \in 3..Len(s) : IsHexDigit(s[i])

isValidAddressFormat(address) ==
  IF address.t # "string" THEN FALSE
  ELSE IF Len(address.v) # ADDRESS_LENGTH THEN FALSE
  ELSE test("ADDRESS_PATTERN", ADDRESS_PATTERN(address.v))

\* the tests isValidAddressFormat(address) makes
isValidAddressFormat_tests(address) ==
  IF address.t # "string" \/ Len(address.v) # ADDRESS_LENGTH THEN NoTests
  ELSE TestOf("ADDRESS_PATTERN", ADDRESS_PATTERN(address.v), Len(address.v))

\* String.prototype.toLowerCase / toUpperCase on ASCII
toLowerCase(s) == [i \in 1..Len(s) |-> IF s[i] \in 65..90 THEN s[i] + 32 ELSE s[i]]
toUpperCase(s) == [i \in 1..Len(s) |-> IF s[i] \in 97..122 THEN s[i] - 32 ELSE s[i]]

\* the first 40 hex digits of keccak256 over the 40 lower-case hex characters of
\* an address, for the addresses the model draws; an address without a letter
\* has the same checksummed form whatever its digest is
keccak256Hex(body) ==
  CASE body = <<48, 48, 99, 49, 101, 53, 49, 53, 101, 97, 57, 53, 55, 57, 56, 53, 54, 51, 48, 52, 49, 57, 56, 101, 102, 98, 49, 53, 102, 53, 50, 53, 97, 48, 98, 98, 53, 48, 102, 54>>
         -> <<56, 99, 55, 102, 57, 57, 101, 99, 98, 99, 57, 101, 57, 53, 56, 53, 101, 101, 51, 56, 51, 99, 53, 56, 98, 54, 48, 97, 50, 55, 52, 101, 56, 101, 53, 51, 50, 99, 53, 50>>
    [] body = <<53, 97, 97, 101, 98, 54, 48, 53, 51, 102, 51, 101, 57, 52, 99, 57, 98, 57, 97, 48, 57, 102, 51, 51, 54, 54, 57, 52, 51, 53, 101, 55, 101, 102, 49, 98, 101, 97, 101, 100>>
         -> <<100, 51, 56, 53, 54, 53, 48, 99, 101, 56, 102, 100, 99, 54, 100, 98, 55, 101, 101, 51, 97, 48, 57, 49, 100, 51, 52, 56, 49, 52, 100, 98, 99, 52, 99, 101, 49, 56, 50, 49>>
    [] OTHER -> [i \in 1..40 |-> 48]

\* the value of a hex digit
HexValue(c) == IF c \in 48..57 THEN c - 48 ELSE IF c \in 97..102 THEN c - 87 ELSE c - 55

\* ethers getChecksumAddress: the EIP-55 rendering of a 0x + 40 hex string
getChecksumAddress(s) ==
  LET chars == toLowerCase(SubSeq(s, 3, Len(s)))
      hashed == keccak256Hex(chars)
  IN <<48, 120>> \o [i \in 1..Len(chars) |->
                 IF HexValue(hashed[i]) >= 8 /\ chars[i] \in 97..122
                   THEN chars[i] - 32 ELSE chars[i]]

\* /([A-F].*[a-f])|([a-f].*[A-F])/ : the string holds hex letters of both cases
IsMixedCase(s) ==
  /\ \E i \in 1..Len(s) : s[i] \in 65..70
  /\ \E i \in 1..Len(s) : s[i] \in 97..102

\* getAddress returning the checksummed form of every string, whatever its casing
getAddress_noThrow(s) == Return(getChecksumAddress(s))

\* ethers getAddress on a string that has the address format: the checksummed
\* form, or a throw for a mixed-case string whose casing is not the checksum's
getAddress(s) ==
  LET result == getChecksumAddress(s)
  IN IF IsMixedCase(s) /\ result # s
       \* the message goes on with the argument's name and value
       THEN Throw("TypeError", <<Lit("bad address checksum (argument=\"address\", value=\""),
                                 Val(s), Lit("\", code=INVALID_ARGUMENT)")>>)
     ELSE Return(result)

\* the default of the context parameter: context = 'address'
ContextText(context) == IF context.t = "undefined" THEN <<97, 100, 100, 114, 101, 115, 115>> ELSE context.v

ZeroAddress == <<48, 120>> \o [i \in 1..40 |-> 48]

\* validateEIP55Checksum without the comparison of the input with the checksummed form
validateEIP55Checksum_noCompare(address, context) ==
  IF ~isValidAddressFormat(address)
    THEN [value |-> Fail(<<Lit("Invalid address format for "), Val(ContextText(context)),
                           Lit(": must be 0x + 40 hex characters")>>),
          steps |-> <<"isValidAddressFormat">>]
  ELSE IF address.v = ZeroAddress
    THEN [value |-> Fail(<<Lit("Zero address not allowed for "), Val(ContextText(context))>>),
          steps |-> <<"isValidAddressFormat">>]
  ELSE LET got == getAddress(address.v)
       IN IF got.thrown # ""
            THEN [value |-> Fail(<<Lit("Invalid address for "), Val(ContextText(context)), Lit(": ")>>
                                 \o got.value.message),
                  steps |-> <<"isValidAddressFormat", "getAddress">>]
          ELSE [value |-> [valid |-> TRUE, checksummed |-> got.value],
                steps |-> <<"isValidAddressFormat", "getAddress">>]

\* validateEIP55Checksum comparing the input with the checksummed form without
\* regard to letter case
validateEIP55Checksum_caseInsensitive(address, context) ==
  IF ~isValidAddressFormat(address)
    THEN [value |-> Fail(<<Lit("Invalid address format for "), Val(ContextText(context)),
                           Lit(": must be 0x + 40 hex characters")>>),
          steps |-> <<"isValidAddressFormat">>]
  ELSE IF address.v = ZeroAddress
    THEN [value |-> Fail(<<Lit("Zero address not allowed for "), Val(ContextText(context))>>),
          steps |-> <<"isValidAddressFormat">>]
  ELSE LET got == getAddress(address.v)
       IN IF got.thrown # ""
            THEN [value |-> Fail(<<Lit("Invalid address for "), Val(ContextText(context)), Lit(": ")>>
                                 \o got.value.message),
                  steps |-> <<"isValidAddressFormat", "getAddress">>]
          ELSE IF toLowerCase(address.v) # toLowerCase(got.value)
            THEN [value |-> [valid |-> FALSE, checksummed |-> got.value,
                             error |-> <<Lit("Invalid EIP-55 checksum for "), Val(ContextText(context)),
                                         Lit(": should be "), Val(got.value)>>],
                  steps |-> <<"isValidAddressFormat", "getAddress">>]
          ELSE [value |-> [valid |-> TRUE, checksummed |-> got.value],
                steps |-> <<"isValidAddressFormat", "getAddress">>]

\* validateEIP55Checksum(address, context): the result and the functions it called
validateEIP55Checksum(address, context) ==
  IF ~isValidAddressFormat(address)
    THEN [value |-> Fail(<<Lit("Invalid address format for "), Val(ContextText(context)),
                           Lit(": must be 0x + 40 hex characters")>>),
          steps |-> <<"isValidAddressFormat">>]
  ELSE IF address.v = ZeroAddress
    THEN [value |-> Fail(<<Lit("Zero address not allowed for "), Val(ContextText(context))>>),
          steps |-> <<"isValidAddressFormat">>]
  ELSE LET got == getAddress(address.v)
       IN IF got.thrown # ""
            \* the catch block
            THEN [value |-> Fail(<<Lit("Invalid address for "), Val(ContextText(context)), Lit(": ")>>
                                 \o got.value.message),
                  steps |-> <<"isValidAddressFormat", "getAddress">>]
          ELSE IF address.v # got.value
            THEN [value |-> [valid |-> FALSE, checksummed |-> got.value,
                             error |-> <<Lit("Invalid EIP-55 checksum for "), Val(ContextText(context)),
                                         Lit(": should be "), Val(got.value)>>],
                  steps |-> <<"isValidAddressFormat", "getAddress">>]
          ELSE [value |-> [valid |-> TRUE, checksummed |-> got.value],
                steps |-> <<"isValidAddressFormat", "getAddress">>]

\* validateAddressDirectory(dirName, parentPath); path.join throws a TypeError
\* for a parentPath that is not a string, and nothing here catches it
validateAddressDirectory(dirName, parentPath) ==
  IF ~isValidAddressFormat(dirName)
    THEN Return(Fail(<<Lit("Invalid address format in directory name: "), Val(dirName.v)>>))
  ELSE IF includes(dirName.v, <<46, 46>>) \/ includes(dirName.v, <<47>>)
          \/ includes(dirName.v, <<92>>)
    THEN Return(Fail(<<Lit("Path traversal detected in directory name: "), Val(dirName.v)>>))
  ELSE IF parentPath.t # "string"
    THEN Throw("TypeError", <<Lit("The \"path\" argument must be of type string")>>)
  ELSE LET fullPath == path_join(<<parentPath.v, dirName.v>>)
           resolvedPath == path_resolve(fullPath)
           resolvedParent == path_resolve(parentPath.v)
       IN IF ~startsWith(resolvedPath, resolvedParent \o path_sep)
            THEN Return(Fail(<<Lit("Directory escapes parent path: "), Val(dirName.v)>>))
          ELSE Return(Ok)

validateAddressMatchesDirectory(address, dirName) ==
  IF address # dirName
    THEN Fail(<<Lit("Address mismatch: directory is "), Val(dirName.v),
                Lit(", but address field is "), Val(address.v)>>)
  ELSE Ok

\* path.dirname(path.dirname(__filename)) of scripts/utils/address-validator.js
ModuleParent == Str(<<47, 114, 101, 112, 111, 47, 115, 99, 114, 105, 112, 116, 115>>)

\* validateTokenAddress with the checksum validated before the directory name
validateTokenAddress_checksumFirst(address, dirName, context) ==
  LET checksumValidation == validateEIP55Checksum(address, context)
      dirValidation == validateAddressDirectory(dirName, ModuleParent)
      matchValidation == validateAddressMatchesDirectory(address, dirName)
  IN IF ~checksumValidation.value.valid
       THEN [value |-> checksumValidation.value,
             steps |-> <<"validateEIP55Checksum">> \o checksumValidation.steps]
     ELSE IF ~dirValidation.value.valid
       THEN [value |-> dirValidation.value,
             steps |-> <<"validateEIP55Checksum">> \o checksumValidation.steps
                       \o <<"validateAddressDirectory">>]
     ELSE IF ~matchValidation.valid
       THEN [value |-> matchValidation,
             steps |-> <<"validateEIP55Checksum">> \o checksumValidation.steps
                       \o <<"validateAddressDirectory", "validateAddressMatchesDirectory">>]
     ELSE [value |-> [valid |-> TRUE, checksummed |-> checksumValidation.value.checksummed],
           steps |-> <<"validateEIP55Checksum">> \o checksumValidation.steps
                     \o <<"validateAddressDirectory", "validateAddressMatchesDirectory">>]

\* validateTokenAddress(address, dirName, context): the result and the
\* functions it called, in the order of the calls
validateTokenAddress(address, dirName, context) ==
  LET dirValidation == validateAddressDirectory(dirName, ModuleParent)
      checksumValidation == validateEIP55Checksum(address, context)
      matchValidation == validateAddressMatchesDirectory(address, dirName)
  IN IF ~dirValidation.value.valid
       THEN [value |-> dirValidation.value, steps |-> <<"validateAddressDirectory">>]
     ELSE IF ~checksumValidation.value.valid
       THEN [value |-> checksumValidation.value,
             steps |-> <<"validateAddressDirectory", "validateEIP55Checksum">>
                       \o checksumValidation.steps]
     ELSE IF ~matchValidation.valid
       THEN [value |-> matchValidation,
             steps |-> <<"validateAddressDirectory", "validateEIP55Checksum">>
                       \o checksumValidation.steps
                       \o <<"validateAddressMatchesDirectory">>]
     ELSE [value |-> [valid |-> TRUE, checksummed |-> checksumValidation.value.checksummed],
           steps |-> <<"validateAddressDirectory", "validateEIP55Checksum">>
                     \o checksumValidation.steps
                     \o <<"validateAddressMatchesDirectory">>]

\* the tests validateTokenAddress makes: those of the directory name, and
\* after a valid directory name those of the address
validateTokenAddress_tests(address, dirName) ==
  isValidAddressFormat_tests(dirName)
  \o IF validateAddressDirectory(dirName, ModuleParent).value.valid
       THEN isValidAddressFormat_tests(address)
     ELSE NoTests

(* ---------------------------------------------------------------------- *)
(* scripts/utils/safe-json.js: safeParse                                   *)
(*                                                                         *)
(* A JSON value is a node [t, kids]: t is "scalar", "object" or "array",   *)
(* kids the members <<key, node>> in order (an array's keys are its        *)
(* indices). "undefined" is what the reviver returns to drop a member.     *)
(* ---------------------------------------------------------------------- *)
Scalar == [t |-> "scalar", kids |-> <<>>]
Undefined == [t |-> "undefined", kids |-> <<>>]

ReservedKeys == {"__proto__", "constructor", "prototype"}

\* the reviver without its test for the key "prototype"
reviver_noPrototypeKey(key, value) ==
  IF key = "__proto__" \/ key = "constructor" THEN Undefined ELSE value

\* the reviver handed to JSON.parse
reviver(key, value) ==
  IF key = "__proto__" \/ key = "constructor" \/ key = "prototype"
    THEN Undefined
  ELSE value

RECURSIVE InternalizeJSONProperty(_, _)
\* JSON.parse's walk with a reviver: the members first, in order (a member the
\* reviver maps to undefined is deleted from an object and left as a hole in an
\* array), then the reviver on the value itself
InternalizeJSONProperty(name, val) ==
  LET walked == [i \in 1..Len(val.kids) |->
                   <<val.kids[i][1], InternalizeJSONProperty(val.kids[i][1], val.kids[i][2])>>]
      kept == IF val.t = "object"
                THEN SelectSeq(walked, LAMBDA m : m[2] # Undefined)
              ELSE walked
  IN reviver(name, [val EXCEPT !.kids = kept])

\* delete obj[key] removes an own property of obj and nothing else; a walk up
\* the prototype chain is not part of it
DeleteProperty_throughChain(obj, base, key) ==
  IF \E i \in 1..Len(obj.kids) : obj.kids[i][1] = key
    THEN [obj |-> [obj EXCEPT !.kids = SelectSeq(obj.kids, LAMBDA m : m[1] # key)],
          base |-> base]
  ELSE [obj |-> obj, base |-> base \ {key}]

\* delete obj[key] with Object.prototype holding the properties in base
DeleteProperty(obj, base, key) ==
  [obj |-> [obj EXCEPT !.kids = SelectSeq(obj.kids, LAMBDA m : m[1] # key)],
   base |-> base]

\* safeParse(text): text is well-formed JSON with the given standard parse, or
\* malformed; base is Object.prototype before the call
safeParse(text, base) ==
  IF ~text.wellFormed
    THEN [thrown |-> "SyntaxError", value |-> Undefined, base |-> base]
  ELSE LET obj == InternalizeJSONProperty("", text.tree)
       IN IF obj.t = "object" \/ obj.t = "array"
            THEN LET d1 == DeleteProperty(obj, base, "__proto__")
                     d2 == DeleteProperty(d1.obj, d1.base, "constructor")
                     d3 == DeleteProperty(d2.obj, d2.base, "prototype")
                 IN [thrown |-> "", value |-> d3.obj, base |-> d3.base]
          ELSE [thrown |-> "", value |-> obj, base |-> base]

(* ---------------------------------------------------------------------- *)
(* scripts/utils/safe-json.js: sanitizeForTerminal                         *)
(* ---------------------------------------------------------------------- *)
\* [0-9;]
IsAnsiParameter(c) == c \in 48..57 \/ c = 59

RECURSIVE SkipAnsiParameters(_, _)
\* the index after the longest run of [0-9;] that starts at i
SkipAnsiParameters(s, i) ==
  IF i <= Len(s) /\ IsAnsiParameter(s[i]) THEN SkipAnsiParameters(s, i + 1) ELSE i

RECURSIVE RemoveAnsiCodes(_, _)
\* str.replace(/\x1b\[[0-9;]*m/g, ''), from index i on: matches are found left
\* to right and the text after a match is scanned from the match's end
RemoveAnsiCodes(s, i) ==
  IF i > Len(s) THEN <<>>
  ELSE LET j == SkipAnsiParameters(s, i + 2)
       IN IF /\ s[i] = 27
             /\ i + 1 <= Len(s)
             /\ s[i + 1] = 91
             /\ j <= Len(s)
             /\ s[j] = 109
            THEN RemoveAnsiCodes(s, j + 1)
          ELSE <<s[i]>> \o RemoveAnsiCodes(s, i + 1)

\* [\x00-\x1F\x7F-\x9F]
IsControlCharacter(c) == c \in 0..31 \/ c \in 127..159

\* str.replace(/[\x00-\x1F\x7F-\x9F]/g, '')
RemoveControlCharacters(s) == SelectSeq(s, LAMBDA c : ~IsControlCharacter(c))

\* sanitizeForTerminal(str): a non-string is returned as String(str)
sanitizeForTerminal(str) ==
  IF str.t # "string" THEN Str(str.v)
  ELSE Str(RemoveControlCharacters(RemoveAnsiCodes(str.v, 1)))

(* ---------------------------------------------------------------------- *)
(* scripts/utils/url-validator.js and the URL constants                    *)
(* ---------------------------------------------------------------------- *)
MAX_URL_LENGTH == 500

\* the characters of the regular-expression class \s
IsWhitespace(c) ==
  c \in {9, 10, 11, 12, 13, 32, 160, 5760, 8232, 8233, 8239, 8287, 12288, 65279}
        \cup (8192..8202)

\* /^https:\/\/[^\s]+$/.test(s)
URL_HTTPS_PATTERN(s) ==
  /\ startsWith(s, <<104, 116, 116, 112, 115, 58, 47, 47>>)
  /\ Len(s) > 8
  /\ \A i \in 9..Len(s) : ~IsWhitespace(s[i])

RECURSIVE Decimal(_)
\* String(n) of a natural number
Decimal(n) == IF n < 10 THEN <<48 + n>> ELSE Decimal(n \div 10) \o <<48 + (n % 10)>>

\* validateURLFormat with the white-space check made before the newline check
validateURLFormat_whitespaceFirst(urlString) ==
  IF urlString.t # "string" THEN Fail(<<Lit("URL must be a string")>>)
  ELSE IF Len(urlString.v) > MAX_URL_LENGTH
    THEN Fail(<<Lit("URL too long: "), Val(Decimal(Len(urlString.v))), Lit(" chars (max: "),
                Val(Decimal(MAX_URL_LENGTH)), Lit(")")>>)
  ELSE IF \E i \in 1..Len(urlString.v) : IsWhitespace(urlString.v[i])
    THEN Fail(<<Lit("URL contains whitespace")>>)
  ELSE IF \E i \in 1..Len(urlString.v) : urlString.v[i] \in {10, 13}
    THEN Fail(<<Lit("URL contains newline characters")>>)
  ELSE IF ~test("URL_HTTPS_PATTERN", URL_HTTPS_PATTERN(urlString.v))
    THEN Fail(<<Lit("URL must start with https:// and be properly formatted")>>)
  ELSE Ok

validateURLFormat(urlString) ==
  IF urlString.t # "string" THEN Fail(<<Lit("URL must be a string")>>)
  ELSE IF Len(urlString.v) > MAX_URL_LENGTH
    THEN Fail(<<Lit("URL too long: "), Val(Decimal(Len(urlString.v))), Lit(" chars (max: "),
                Val(Decimal(MAX_URL_LENGTH)), Lit(")")>>)
  ELSE IF \E i \in 1..Len(urlString.v) : urlString.v[i] \in {10, 13}
    THEN Fail(<<Lit("URL contains newline characters")>>)
  ELSE IF \E i \in 1..Len(urlString.v) : IsWhitespace(urlString.v[i])
    THEN Fail(<<Lit("URL contains whitespace")>>)
  ELSE IF ~test("URL_HTTPS_PATTERN", URL_HTTPS_PATTERN(urlString.v))
    THEN Fail(<<Lit("URL must start with https:// and be properly formatted")>>)
  ELSE Ok

\* localhost, 127.0.0.1, 0.0.0.0, ::1, 169.254.169.254,
\* metadata.google.internal, metadata, 169.254.169.253
BLOCKED_HOSTS ==
  { <<108, 111, 99, 97, 108, 104, 111, 115, 116>>, <<49, 50, 55, 46, 48, 46, 48, 46, 49>>, <<48, 46, 48, 46, 48, 46, 48>>, <<58, 58, 49>>, <<49, 54, 57, 46, 50, 53, 52, 46, 49, 54, 57, 46, 50, 53, 52>>,
    <<109, 101, 116, 97, 100, 97, 116, 97, 46, 103, 111, 111, 103, 108, 101, 46, 105, 110, 116, 101, 114, 110, 97, 108>>, <<109, 101, 116, 97, 100, 97, 116, 97>>, <<49, 54, 57, 46, 50, 53, 52, 46, 49, 54, 57, 46, 50, 53, 51>> }

\* /^172\.(1[6-9]|2[0-9]|3[0-1])\./.test(s)
MatchesPrivate172(s) ==
  /\ startsWith(s, <<49, 55, 50, 46>>)
  /\ Len(s) >= 7
  /\ \/ (s[5] = 49 /\ s[6] \in 54..57)
     \/ (s[5] = 50 /\ s[6] \in 48..57)
     \/ (s[5] = 51 /\ s[6] \in 48..49)
  /\ s[7] = 46

\* the patterns of BLOCKED_IP_PATTERNS, in their order, each as its test of
\* s: whether s matches it from index 0, and where the match ends
BLOCKED_IP_PATTERNS(s) ==
  TestOf("BLOCKED_IP_PATTERNS[0]", startsWith(s, <<49, 48, 46>>), 3)
  \o TestOf("BLOCKED_IP_PATTERNS[1]", MatchesPrivate172(s), 7)
  \o TestOf("BLOCKED_IP_PATTERNS[2]", startsWith(s, <<49, 57, 50, 46, 49, 54, 56, 46>>), 8)
  \o TestOf("BLOCKED_IP_PATTERNS[3]", startsWith(s, <<49, 50, 55, 46>>), 4)
  \o TestOf("BLOCKED_IP_PATTERNS[4]", startsWith(s, <<48, 46>>), 2)
  \o TestOf("BLOCKED_IP_PATTERNS[5]", startsWith(s, <<49, 54, 57, 46, 50, 53, 52, 46>>), 8)
  \o TestOf("BLOCKED_IP_PATTERNS[6]", s = <<58, 58, 49>>, 3)
  \o TestOf("BLOCKED_IP_PATTERNS[7]", startsWith(s, <<102, 101, 56, 48, 58>>), 5)
  \o TestOf("BLOCKED_IP_PATTERNS[8]", startsWith(s, <<102, 99, 48, 48, 58>>), 5)
  \o TestOf("BLOCKED_IP_PATTERNS[9]", startsWith(s, <<102, 100, 48, 48, 58>>), 5)

\* isBlockedHost(hostname), hostname a string
isBlockedHost(hostname) ==
  LET lowerHostname == toLowerCase(hostname)
      tests == BLOCKED_IP_PATTERNS(lowerHostname)
  IN IF lowerHostname \in BLOCKED_HOSTS THEN TRUE
     ELSE \E i \in 1..Len(tests) : test(tests[i].pattern, tests[i].matches)

\* the tests isBlockedHost(hostname) makes: the loop leaves at the first match
isBlockedHost_tests(hostname) ==
  LET lowerHostname == toLowerCase(hostname)
      tests == BLOCKED_IP_PATTERNS(lowerHostname)
      hits == { i \in 1..Len(tests) : test(tests[i].pattern, tests[i].matches) }
  IN IF lowerHostname \in BLOCKED_HOSTS THEN NoTests
     ELSE IF hits = {} THEN tests
     ELSE SubSeq(tests, 1, CHOOSE i \in hits : \A j \in hits : i <= j)

(* new URL(urlString) for a string that starts with "https://": the          *)
(* hostname and port properties, or a throw. It covers credentials, a port,  *)
(* a bracketed IPv6 literal written in its shortest lower- or upper-case     *)
(* form, a domain name, and an IPv4 address written as one to four decimal,  *)
(* octal or hexadecimal numbers below 2^31; percent-escapes and non-ASCII    *)
(* names are outside it.                                                     *)
Least(S) == CHOOSE x \in S : \A y \in S : x <= y
Greatest(S) == CHOOSE x \in S : \A y \in S : x >= y

\* index of the first character of s at or after from that is in set, else Len(s) + 1
IndexOfAny(s, set, from) ==
  LET hits == { i \in from..Len(s) : s[i] \in set }
  IN IF hits = {} THEN Len(s) + 1 ELSE Least(hits)

RECURSIVE NumberIn(_, _)
\* the value of a string of digits in a base, -1 when a character is no digit
\* of the base
NumberIn(digits, base) ==
  IF digits = <<>> THEN 0
  ELSE LET c == digits[Len(digits)]
           d == IF c \in 48..57 THEN c - 48
                ELSE IF c \in 97..102 THEN c - 87
                ELSE IF c \in 65..70 THEN c - 55
                ELSE 99
           high == NumberIn(SubSeq(digits, 1, Len(digits) - 1), base)
       IN IF d >= base \/ high < 0 THEN -1 ELSE high * base + d

\* the IPv4 number parser: 0x.. is hexadecimal, 0.. octal, else decimal
ParseIPv4Number(part) ==
  IF part = <<>> THEN -1
  ELSE IF Len(part) >= 2 /\ part[1] = 48 /\ part[2] \in {120, 88}
    THEN NumberIn(SubSeq(part, 3, Len(part)), 16)
  ELSE IF Len(part) >= 2 /\ part[1] = 48
    THEN NumberIn(SubSeq(part, 2, Len(part)), 8)
  ELSE NumberIn(part, 10)

RECURSIVE SplitOn(_, _, _, _)
\* String.prototype.split on one character
SplitOn(s, sep, i, cur) ==
  IF i > Len(s) THEN <<cur>>
  ELSE IF s[i] = sep THEN <<cur>> \o SplitOn(s, sep, i + 1, <<>>)
  ELSE SplitOn(s, sep, i + 1, Append(cur, s[i]))

\* the labels of a host, one trailing empty label dropped
HostLabels(host) ==
  LET labels == SplitOn(host, 46, 1, <<>>)
  IN IF Len(labels) > 1 /\ labels[Len(labels)] = <<>>
       THEN SubSeq(labels, 1, Len(labels) - 1) ELSE labels

\* the host ends in a number: its last label is digits or a 0x number
EndsInNumber(host) ==
  LET labels == HostLabels(host)
      last == labels[Len(labels)]
  IN /\ last # <<>>
     /\ \/ \A i \in 1..Len(last) : last[i] \in 48..57
        \/ ParseIPv4Number(last) >= 0

Power256(n) == IF n = 0 THEN 1 ELSE IF n = 1 THEN 256 ELSE IF n = 2 THEN 65536 ELSE 16777216

\* the IPv4 parser and serializer: dotted decimal, or a throw
ParseIPv4(host) ==
  LET labels == HostLabels(host)
      n == Len(labels)
      numbers == [i \in 1..n |-> ParseIPv4Number(labels[i])]
  IN IF n > 4 \/ \E i \in 1..n : numbers[i] < 0
       THEN Throw("TypeError", <<Lit("Invalid URL")>>)
     ELSE IF \E i \in 1..(n - 1) : numbers[i] > 255
       THEN Throw("TypeError", <<Lit("Invalid URL")>>)
     ELSE IF n > 1 /\ numbers[n] >= Power256(5 - n)
       THEN Throw("TypeError", <<Lit("Invalid URL")>>)
     ELSE LET high[i \in 0..(n - 1)] ==
                IF i = 0 THEN 0 ELSE high[i - 1] * 256 + numbers[i]
              \* the leading numbers fill the high octets, the last number the rest
              octet(k) == IF k <= n - 1 THEN numbers[k]
                          ELSE (numbers[n] \div Power256(4 - k)) % 256
          IN Return(Decimal(octet(1)) \o <<46>> \o Decimal(octet(2)) \o <<46>>
                    \o Decimal(octet(3)) \o <<46>> \o Decimal(octet(4)))

\* characters a domain may not contain
ForbiddenDomainCodePoints ==
  (0..32) \cup {35, 37, 47, 58, 60, 62, 63, 64, 91, 92, 93, 94, 124, 127}

\* the host parser: the serialized host, or a throw
ParseHost(host) ==
  IF host = <<>> THEN Throw("TypeError", <<Lit("Invalid URL")>>)
  ELSE IF host[1] = 91
    THEN IF host[Len(host)] # 93
              \/ \E i \in 2..(Len(host) - 1) : ~(IsHexDigit(host[i]) \/ host[i] = 58)
           THEN Throw("TypeError", <<Lit("Invalid URL")>>)
         \* an IPv6 literal is serialized in lower case, inside its brackets
         ELSE Return(toLowerCase(host))
  ELSE IF \E i \in 1..Len(host) : host[i] \in ForbiddenDomainCodePoints
    THEN Throw("TypeError", <<Lit("Invalid URL")>>)
  ELSE IF EndsInNumber(toLowerCase(host)) THEN ParseIPv4(toLowerCase(host))
  ELSE Return(toLowerCase(host))

\* new URL(s): [protocol, hostname, port], or a throw
ParseURL(s) ==
  LET start == Least({ i \in 7..(Len(s) + 1) : i > Len(s) \/ s[i] \notin {47, 92} })
      end == IndexOfAny(s, {47, 92, 63, 35}, start)
      authority == SubSeq(s, start, end - 1)
      ats == { i \in 1..Len(authority) : authority[i] = 64 }
      hostport == IF ats = {} THEN authority
                  ELSE SubSeq(authority, Greatest(ats) + 1, Len(authority))
      bracketed == hostport # <<>> /\ hostport[1] = 91
      closing == IndexOfAny(hostport, {93}, 1)
      \* a colon inside brackets does not start the port
      hostEnd == IF bracketed
                   THEN (IF closing > Len(hostport) THEN closing ELSE closing + 1)
                 ELSE IndexOfAny(hostport, {58}, 1)
      hostText == SubSeq(hostport, 1, hostEnd - 1)
      after == SubSeq(hostport, hostEnd, Len(hostport))
      portText == IF after = <<>> THEN <<>> ELSE Tail(after)
      portValue == IF Len(portText) > 5 THEN -1 ELSE NumberIn(portText, 10)
      host == ParseHost(hostText)
  IN IF host.thrown # "" THEN host
     ELSE IF after # <<>> /\ after[1] # 58
       THEN Throw("TypeError", <<Lit("Invalid URL")>>)
     ELSE IF portValue < 0 \/ portValue > 65535
       THEN Throw("TypeError", <<Lit("Invalid URL")>>)
     ELSE Return([protocol |-> <<104, 116, 116, 112, 115, 58>>,
                  hostname |-> host.value,
                  \* the default port of the scheme is dropped
                  port |-> IF portText = <<>> \/ portValue = 443
                             THEN <<>> ELSE Decimal(portValue)])

\* the default of the fieldName parameter: fieldName = 'URL'
FieldText(fieldName) == IF fieldName.t = "undefined" THEN <<85, 82, 76>> ELSE fieldName.v

\* validateURL without its check of the port
validateURL_noPortCheck(urlString, fieldName) ==
  LET Checks(formatCheck, parsed) ==
        LET url == parsed.value
        IN IF ~formatCheck.valid
             THEN Fail(<<Val(FieldText(fieldName)), Lit(": ")>> \o formatCheck.error)
           ELSE IF parsed.thrown # ""
             THEN Fail(<<Val(FieldText(fieldName)), Lit(" is not a valid URL: ")>>
                       \o parsed.value.message)
           ELSE IF url.protocol # <<104, 116, 116, 112, 115, 58>>
             THEN Fail(<<Val(FieldText(fieldName)), Lit(" must use HTTPS protocol")>>)
           ELSE IF isBlockedHost(url.hostname)
             THEN Fail(<<Val(FieldText(fieldName)),
                         Lit(" hostname is blocked (potential SSRF): "), Val(url.hostname)>>)
           ELSE Ok
  IN Checks(validateURLFormat(urlString), ParseURL(urlString.v))

\* validateURL(urlString, fieldName): Checks is the body, given the result of
\* validateURLFormat and the outcome of new URL(urlString)
validateURL(urlString, fieldName) ==
  LET Checks(formatCheck, parsed) ==
        LET url == parsed.value
        IN IF ~formatCheck.valid
             THEN Fail(<<Val(FieldText(fieldName)), Lit(": ")>> \o formatCheck.error)
           ELSE IF parsed.thrown # ""
             \* the catch block
             THEN Fail(<<Val(FieldText(fieldName)), Lit(" is not a valid URL: ")>>
                       \o parsed.value.message)
           ELSE IF url.protocol # <<104, 116, 116, 112, 115, 58>>
             THEN Fail(<<Val(FieldText(fieldName)), Lit(" must use HTTPS protocol")>>)
           ELSE IF isBlockedHost(url.hostname)
             THEN Fail(<<Val(FieldText(fieldName)),
                         Lit(" hostname is blocked (potential SSRF): "), Val(url.hostname)>>)
           ELSE IF url.port # <<>> /\ url.port # <<52, 52, 51>>
             THEN Fail(<<Val(FieldText(fieldName)),
                         Lit(" uses non-standard HTTPS port: "), Val(url.port)>>)
           ELSE Ok
  IN Checks(validateURLFormat(urlString), ParseURL(urlString.v))

\* the tests validateURLFormat(urlString) makes: the pattern is the last check
validateURLFormat_tests(urlString) ==
  IF \/ urlString.t # "string"
     \/ Len(urlString.v) > MAX_URL_LENGTH
     \/ \E i \in 1..Len(urlString.v) : IsWhitespace(urlString.v[i])
    THEN NoTests
  ELSE TestOf("URL_HTTPS_PATTERN", URL_HTTPS_PATTERN(urlString.v), Len(urlString.v))

\* the tests validateURL(urlString, fieldName) makes: those of the format,
\* and those of isBlockedHost when the URL parses and its protocol is https:
validateURL_tests(urlString) ==
  LET HostTests(formatCheck, parsed) ==
        IF formatCheck.valid /\ parsed.thrown = "" /\ parsed.value.protocol = <<104, 116, 116, 112, 115, 58>>
          THEN isBlockedHost_tests(parsed.value.hostname)
        ELSE NoTests
  IN validateURLFormat_tests(urlString)
     \o HostTests(validateURLFormat(urlString), ParseURL(urlString.v))

(* An object handed to validateURLs is the sequence of its own properties,  *)
(* each a pair of a key and a value.                                        *)
\* obj[field]: undefined when the object has no such property
Lookup(obj, field) ==
  LET hits == { i \in 1..Len(obj) : obj[i][1] = field }
  IN IF hits = {} THEN [t |-> "undefined", v |-> <<117, 110, 100, 101, 102, 105, 110, 101, 100>>] ELSE obj[Greatest(hits)][2]

RECURSIVE validateURLs_stopAtFirst_loop(_, _, _)
\* the loop leaving at the first error pushed
validateURLs_stopAtFirst_loop(obj, urlFields, done) ==
  IF urlFields = <<>> \/ done.errors # <<>> THEN done
  ELSE LET field == Head(urlFields)
           value == Lookup(obj, field)
           Push(result) == [errors |-> IF result.valid THEN done.errors
                                       ELSE Append(done.errors, result.error),
                            steps |-> Append(done.steps, field)]
       IN IF value.t \in {"undefined", "null"}
            THEN validateURLs_stopAtFirst_loop(obj, Tail(urlFields), done)
          ELSE validateURLs_stopAtFirst_loop(obj, Tail(urlFields),
                 Push(validateURL(value, Str(field))))

RECURSIVE validateURLs_loop(_, _, _)
\* for (const field of urlFields): the errors pushed and the fields validated
validateURLs_loop(obj, urlFields, done) ==
  IF urlFields = <<>> THEN done
  ELSE LET field == Head(urlFields)
           value == Lookup(obj, field)
           \* errors.push(result.error) when the result is not valid
           Push(result) == [errors |-> IF result.valid THEN done.errors
                                       ELSE Append(done.errors, result.error),
                            steps |-> Append(done.steps, field)]
       IN IF value.t \in {"undefined", "null"}
            \* continue
            THEN validateURLs_loop(obj, Tail(urlFields), done)
          ELSE validateURLs_loop(obj, Tail(urlFields),
                 Push(validateURL(value, Str(field))))

\* validateURLs returning at the first failure
validateURLs_stopAtFirst(obj, urlFields) ==
  LET Result(done) == [value |-> [valid |-> Len(done.errors) = 0, errors |-> done.errors],
                       steps |-> done.steps]
  IN Result(validateURLs_stopAtFirst_loop(obj, urlFields, [errors |-> <<>>, steps |-> <<>>]))

\* validateURLs(obj, urlFields): the result, and the fields handed to validateURL
validateURLs(obj, urlFields) ==
  LET \* return { valid: errors.length === 0, errors }
      Result(done) == [value |-> [valid |-> Len(done.errors) = 0, errors |-> done.errors],
                       steps |-> done.steps]
  IN Result(validateURLs_loop(obj, urlFields, [errors |-> <<>>, steps |-> <<>>]))

RECURSIVE validateURLs_tests(_, _)
\* the tests validateURLs makes: those of validateURL on each field it hands over
validateURLs_tests(obj, fields) ==
  IF fields = <<>> THEN NoTests
  ELSE validateURL_tests(Lookup(obj, Head(fields))) \o validateURLs_tests(obj, Tail(fields))

(* ---------------------------------------------------------------------- *)
(* scripts/validators/abi-validator.js and the ABI constants               *)
(* ---------------------------------------------------------------------- *)
(* A parsed ABI is a tree of values: a string, number, null and undefined  *)
(* are [t, v]; an array is [t |-> "array", items |-> elements]; an object is a  *)
(* record with t = "object" and one field per own property.                *)
Absent == [t |-> "undefined", v |-> <<117, 110, 100, 101, 102, 105, 110, 101, 100>>]
Arr(elements) == [t |-> "array", items |-> elements]

\* obj.field: undefined when the property is absent
Get(obj, field) ==
  IF obj.t = "object" /\ field \in DOMAIN obj THEN obj[field] ELSE Absent

\* the truth value of a value in a condition
Truthy(value) ==
  IF value.t \in {"undefined", "null"} THEN FALSE
  ELSE IF value.t = "string" THEN value.v # <<>>
  ELSE TRUE

\* Array.prototype.includes
ArrayIncludes(array, x) == \E i \in 1..Len(array) : array[i] = x

VALID_ABI_TYPES ==
  << <<102, 117, 110, 99, 116, 105, 111, 110>>, <<99, 111, 110, 115, 116, 114, 117, 99, 116, 111, 114>>, <<101, 118, 101, 110, 116>>, <<102, 97, 108, 108, 98, 97, 99, 107>>, <<114, 101, 99, 101, 105, 118, 101>>, <<101, 114, 114, 111, 114>> >>

VALID_STATE_MUTABILITY == << <<112, 117, 114, 101>>, <<118, 105, 101, 119>>, <<110, 111, 110, 112, 97, 121, 97, 98, 108, 101>>, <<112, 97, 121, 97, 98, 108, 101>> >>

\* /^[a-zA-Z_][a-zA-Z0-9_]*$/.test(s)
ABI_FUNCTION_NAME_PATTERN(s) ==
  /\ s # <<>>
  /\ IsUpper(s[1]) \/ IsLower(s[1]) \/ s[1] = 95
  /\ \A i \in 2..Len(s) : IsAlnum(s[i]) \/ s[i] = 95

\* const dangerousNames = ['__proto__', 'constructor', 'prototype']
dangerousNames == << <<95, 95, 112, 114, 111, 116, 111, 95, 95>>, <<99, 111, 110, 115, 116, 114, 117, 99, 116, 111, 114>>, <<112, 114, 111, 116, 111, 116, 121, 112, 101>> >>

\* /^[a-zA-Z0-9[\](),\s]+$/.test(s)
TypeFormat(s) ==
  /\ s # <<>>
  /\ \A i \in 1..Len(s) :
       IsAlnum(s[i]) \/ s[i] \in {91, 93, 40, 41, 44} \/ IsWhitespace(s[i])

\* the result a loop returns at its first invalid result, else { valid: true }
FirstInvalid(results) ==
  LET bad == { i \in 1..Len(results) : ~results[i].valid }
  IN IF bad = {} THEN Ok ELSE results[Least(bad)]

RECURSIVE validateABIParameter(_, _)
validateABIParameter(param, context) ==
  LET type == Get(param, "type")
      name == Get(param, "name")
      components == Get(param, "components")
      componentResults ==
        [i \in 1..Len(components.items) |->
           validateABIParameter(components.items[i],
                                context \o <<46, 99, 111, 109, 112, 111, 110, 101, 110, 116, 115, 91>> \o Decimal(i - 1) \o <<93>>)]
  IN IF param.t \notin {"object", "array"}
       THEN Fail(<<Val(context), Lit(": parameter must be an object")>>)
     ELSE IF ~Truthy(type) \/ type.t # "string"
       THEN Fail(<<Val(context), Lit(": parameter missing 'type' field")>>)
     ELSE IF name.t # "undefined" /\ name # Str(<<>>) /\ name.t # "string"
       THEN Fail(<<Val(context), Lit(": parameter name must be a string")>>)
     ELSE IF Truthy(name) /\ ~test("ABI_FUNCTION_NAME_PATTERN", ABI_FUNCTION_NAME_PATTERN(name.v))
       THEN Fail(<<Val(context), Lit(": parameter name '"), Val(name.v),
                   Lit("' is invalid (must be valid identifier)")>>)
     ELSE IF Truthy(name) /\ ArrayIncludes(dangerousNames, name.v)
       THEN Fail(<<Val(context), Lit(": parameter name '"), Val(name.v),
                   Lit("' is not allowed (security risk)")>>)
     ELSE IF ~TypeFormat(type.v)
       THEN Fail(<<Val(context), Lit(": parameter type '"), Val(type.v),
                   Lit("' contains invalid characters")>>)
     ELSE IF startsWith(type.v, <<116, 117, 112, 108, 101>>) /\ Truthy(components)
       THEN IF components.t # "array"
              THEN Fail(<<Val(context), Lit(": tuple components must be an array")>>)
            ELSE FirstInvalid(componentResults)
     ELSE Ok

validateABIParameters(params, context) ==
  IF params.t # "array" THEN Fail(<<Val(context), Lit(" must be an array")>>)
  ELSE FirstInvalid([i \in 1..Len(params.items) |->
                       validateABIParameter(params.items[i],
                                            context \o <<91>> \o Decimal(i - 1) \o <<93>>)])

\* validateABIItem(item, index): { valid: true, warnings } or { valid: false, error }
validateABIItem(item, index) ==
  LET type == Get(item, "type")
      name == Get(item, "name")
      inputs == Get(item, "inputs")
      outputs == Get(item, "outputs")
      stateMutability == Get(item, "stateMutability")
      here == <<65, 66, 73, 32, 105, 116, 101, 109, 32>> \o Decimal(index)
      inputsResult == validateABIParameters(inputs, here \o <<46, 105, 110, 112, 117, 116, 115>>)
      outputsResult == validateABIParameters(outputs, here \o <<46, 111, 117, 116, 112, 117, 116, 115>>)
      functionInputsWarning ==
        IF type.v \in {<<102, 117, 110, 99, 116, 105, 111, 110>>, <<99, 111, 110, 115, 116, 114, 117, 99, 116, 111, 114>>} /\ ~Truthy(inputs)
          THEN << <<Lit("ABI item "), Val(Decimal(index)), Lit(" ("), Val(type.v), Lit(") missing 'inputs' field")>> >>
        ELSE <<>>
      outputsWarning ==
        IF type.v = <<102, 117, 110, 99, 116, 105, 111, 110>> /\ ~Truthy(outputs)
          THEN << <<Lit("ABI item "), Val(Decimal(index)), Lit(" (function "), Val(name.v),
                    Lit(") missing 'outputs' field")>> >>
        ELSE <<>>
      eventInputsWarning ==
        IF type.v = <<101, 118, 101, 110, 116>> /\ ~Truthy(inputs)
          THEN << <<Lit("ABI item "), Val(Decimal(index)), Lit(" (event "), Val(name.v),
                    Lit(") missing 'inputs' field")>> >>
        ELSE <<>>
  IN IF item.t \notin {"object", "array"}
       THEN Fail(<<Lit("ABI item "), Val(Decimal(index)), Lit(" must be an object")>>)
     ELSE IF ~Truthy(type) \/ type.t # "string"
       THEN Fail(<<Lit("ABI item "), Val(Decimal(index)), Lit(" missing 'type' field")>>)
     ELSE IF ~ArrayIncludes(VALID_ABI_TYPES, type.v)
       THEN Fail(<<Lit("ABI item "), Val(Decimal(index)), Lit(" has invalid type: "), Val(type.v)>>)
     ELSE IF type.v \in {<<102, 117, 110, 99, 116, 105, 111, 110>>, <<101, 118, 101, 110, 116>>, <<101, 114, 114, 111, 114>>}
             /\ (~Truthy(name) \/ name.t # "string")
       THEN Fail(<<Lit("ABI item "), Val(Decimal(index)), Lit(" ("), Val(type.v), Lit(") missing 'name' field")>>)
     ELSE IF type.v \in {<<102, 117, 110, 99, 116, 105, 111, 110>>, <<101, 118, 101, 110, 116>>, <<101, 114, 114, 111, 114>>}
             /\ ~test("ABI_FUNCTION_NAME_PATTERN", ABI_FUNCTION_NAME_PATTERN(name.v))
       THEN Fail(<<Lit("ABI item "), Val(Decimal(index)), Lit(" has invalid name: "), Val(name.v)>>)
     ELSE IF type.v \in {<<102, 117, 110, 99, 116, 105, 111, 110>>, <<99, 111, 110, 115, 116, 114, 117, 99, 116, 111, 114>>} /\ Truthy(inputs)
             /\ ~inputsResult.valid
       THEN inputsResult
     ELSE IF type.v = <<102, 117, 110, 99, 116, 105, 111, 110>> /\ Truthy(outputs) /\ ~outputsResult.valid
       THEN outputsResult
     ELSE IF Truthy(stateMutability)
             /\ ~(stateMutability.t = "string"
                  /\ ArrayIncludes(VALID_STATE_MUTABILITY, stateMutability.v))
       THEN Fail(<<Lit("ABI item "), Val(Decimal(index)), Lit(" has invalid stateMutability: "),
                   Val(stateMutability.v)>>)
     ELSE IF type.v = <<101, 118, 101, 110, 116>> /\ Truthy(inputs) /\ ~inputsResult.valid
       THEN inputsResult
     ELSE [valid |-> TRUE,
           warnings |-> functionInputsWarning \o outputsWarning \o eventInputsWarning]

RECURSIVE Concat(_)
\* the elements of a sequence of sequences, in order
Concat(seqs) == IF seqs = <<>> THEN <<>> ELSE Head(seqs) \o Concat(Tail(seqs))

\* the default of the contractName parameter: contractName = 'contract'
ContractText(contractName) ==
  IF contractName.t = "undefined" THEN <<99, 111, 110, 116, 114, 97, 99, 116>> ELSE contractName.v

\* validateABI reporting the last invalid item instead of the first
validateABI_lastInvalid(abi, contractName) ==
  LET who == ContractText(contractName)
      results == [i \in 1..Len(abi.items) |-> validateABIItem(abi.items[i], i - 1)]
      bad == { i \in 1..Len(abi.items) : ~results[i].valid }
      itemWarnings ==
        Concat([i \in 1..Len(abi.items) |->
                  [k \in 1..Len(results[i].warnings) |->
                     <<Val(who), Lit(": ")>> \o results[i].warnings[k]]])
      hasConstructor == \E i \in 1..Len(abi.items) : Get(abi.items[i], "type") = Str(<<99, 111, 110, 115, 116, 114, 117, 99, 116, 111, 114>>)
      hasFunctions == \E i \in 1..Len(abi.items) : Get(abi.items[i], "type") = Str(<<102, 117, 110, 99, 116, 105, 111, 110>>)
  IN IF abi.t # "array"
       THEN Fail(<<Lit("ABI for "), Val(who), Lit(" must be a JSON array")>>)
     ELSE IF Len(abi.items) = 0
       THEN Fail(<<Lit("ABI for "), Val(who), Lit(" is empty")>>)
     ELSE IF bad # {}
       THEN Fail(<<Val(who), Lit(": ")>> \o results[Greatest(bad)].error)
     ELSE [valid |-> TRUE,
           warnings |->
             itemWarnings \o
             (IF ~hasConstructor /\ ~hasFunctions
                THEN << <<Val(who),
                          Lit(": ABI has no constructor or functions (may be interface/library)")>> >>
              ELSE <<>>)]

\* validateABI(abi, contractName)
validateABI(abi, contractName) ==
  LET who == ContractText(contractName)
      results == [i \in 1..Len(abi.items) |-> validateABIItem(abi.items[i], i - 1)]
      bad == { i \in 1..Len(abi.items) : ~results[i].valid }
      itemWarnings ==
        Concat([i \in 1..Len(abi.items) |->
                  [k \in 1..Len(results[i].warnings) |->
                     <<Val(who), Lit(": ")>> \o results[i].warnings[k]]])
      hasConstructor == \E i \in 1..Len(abi.items) : Get(abi.items[i], "type") = Str(<<99, 111, 110, 115, 116, 114, 117, 99, 116, 111, 114>>)
      hasFunctions == \E i \in 1..Len(abi.items) : Get(abi.items[i], "type") = Str(<<102, 117, 110, 99, 116, 105, 111, 110>>)
  IN IF abi.t # "array"
       THEN Fail(<<Lit("ABI for "), Val(who), Lit(" must be a JSON array")>>)
     ELSE IF Len(abi.items) = 0
       THEN Fail(<<Lit("ABI for "), Val(who), Lit(" is empty")>>)
     ELSE IF bad # {}
       THEN Fail(<<Val(who), Lit(": ")>> \o results[Least(bad)].error)
     ELSE [valid |-> TRUE,
           warnings |->
             itemWarnings \o
             (IF ~hasConstructor /\ ~hasFunctions
                THEN << <<Val(who),
                          Lit(": ABI has no constructor or functions (may be interface/library)")>> >>
              ELSE <<>>)]

\* the tests of a loop that returns at its first invalid result: tests[i] are
\* the tests of the call that gave results[i]
TestsToFirstInvalid(results, tests) ==
  LET bad == { i \in 1..Len(results) : ~results[i].valid }
  IN Concat(SubSeq(tests, 1, IF bad = {} THEN Len(results) ELSE Least(bad)))

RECURSIVE validateABIParameter_tests(_)
\* the tests validateABIParameter(param, context) makes: the name when there
\* is one, then the components of a tuple
validateABIParameter_tests(param) ==
  LET type == Get(param, "type")
      name == Get(param, "name")
      components == Get(param, "components")
      nameTests ==
        IF Truthy(name)
          THEN TestOf("ABI_FUNCTION_NAME_PATTERN", ABI_FUNCTION_NAME_PATTERN(name.v), Len(name.v))
        ELSE NoTests
      nameAccepted ==
        ~Truthy(name) \/ (/\ test("ABI_FUNCTION_NAME_PATTERN", ABI_FUNCTION_NAME_PATTERN(name.v))
                          /\ ~ArrayIncludes(dangerousNames, name.v))
  IN IF \/ param.t \notin {"object", "array"}
        \/ ~Truthy(type) \/ type.t # "string"
        \/ (name.t # "undefined" /\ name # Str(<<>>) /\ name.t # "string")
       THEN NoTests
     ELSE IF /\ nameAccepted
             /\ TypeFormat(type.v)
             /\ startsWith(type.v, <<116, 117, 112, 108, 101>>) /\ Truthy(components)
             /\ components.t = "array"
       THEN nameTests
            \o TestsToFirstInvalid(
                 [i \in 1..Len(components.items) |->
                    validateABIParameter(components.items[i], <<>>)],
                 [i \in 1..Len(components.items) |->
                    validateABIParameter_tests(components.items[i])])
     ELSE nameTests

\* the tests validateABIParameters(params, context) makes
validateABIParameters_tests(params) ==
  IF params.t # "array" THEN NoTests
  ELSE TestsToFirstInvalid(
         [i \in 1..Len(params.items) |-> validateABIParameter(params.items[i], <<>>)],
         [i \in 1..Len(params.items) |-> validateABIParameter_tests(params.items[i])])

\* the tests validateABIItem(item, index) makes: the name of a function, an
\* event or an error, then the inputs of a function or a constructor, the
\* outputs of a function, and after the state mutability the inputs of an event
validateABIItem_tests(item) ==
  LET type == Get(item, "type")
      name == Get(item, "name")
      inputs == Get(item, "inputs")
      outputs == Get(item, "outputs")
      stateMutability == Get(item, "stateMutability")
      named == type.v \in {<<102, 117, 110, 99, 116, 105, 111, 110>>, <<101, 118, 101, 110, 116>>, <<101, 114, 114, 111, 114>>}
      nameTests ==
        IF named
          THEN TestOf("ABI_FUNCTION_NAME_PATTERN", ABI_FUNCTION_NAME_PATTERN(name.v), Len(name.v))
        ELSE NoTests
      nameAccepted ==
        named => test("ABI_FUNCTION_NAME_PATTERN", ABI_FUNCTION_NAME_PATTERN(name.v))
      callInputs == type.v \in {<<102, 117, 110, 99, 116, 105, 111, 110>>, <<99, 111, 110, 115, 116, 114, 117, 99, 116, 111, 114>>} /\ Truthy(inputs)
      callOutputs == type.v = <<102, 117, 110, 99, 116, 105, 111, 110>> /\ Truthy(outputs)
      inputsAccepted == validateABIParameters(inputs, <<>>).valid
      outputsAccepted == validateABIParameters(outputs, <<>>).valid
      mutabilityAccepted ==
        Truthy(stateMutability)
          => (stateMutability.t = "string"
              /\ ArrayIncludes(VALID_STATE_MUTABILITY, stateMutability.v))
      AfterName ==
        (IF callInputs THEN validateABIParameters_tests(inputs) ELSE NoTests)
        \o (IF callInputs /\ ~inputsAccepted THEN NoTests
            ELSE (IF callOutputs THEN validateABIParameters_tests(outputs) ELSE NoTests)
                 \o (IF /\ callOutputs => outputsAccepted
                        /\ mutabilityAccepted
                        /\ type.v = <<101, 118, 101, 110, 116>> /\ Truthy(inputs)
                       THEN validateABIParameters_tests(inputs)
                     ELSE NoTests))
  IN IF \/ item.t \notin {"object", "array"}
        \/ ~Truthy(type) \/ type.t # "string"
        \/ ~ArrayIncludes(VALID_ABI_TYPES, type.v)
        \/ (named /\ (~Truthy(name) \/ name.t # "string"))
       THEN NoTests
     ELSE IF ~nameAccepted THEN nameTests
     ELSE nameTests \o AfterName

\* the tests validateABI(abi, contractName) makes
validateABI_tests(abi) ==
  IF abi.t # "array" THEN NoTests
  ELSE TestsToFirstInvalid(
         [i \in 1..Len(abi.items) |-> validateABIItem(abi.items[i], i - 1)],
         [i \in 1..Len(abi.items) |-> validateABIItem_tests(abi.items[i])])

(* ---------------------------------------------------------------------- *)
(* scripts/utils/safe-json.js: safeReadJSON                                *)
(*                                                                         *)
(* A file's content is the sequence of its characters (code points); its   *)
(* size on disk is the length of their UTF-8 encoding, and the length of   *)
(* the string readFileSync(path, 'utf8') returns is the number of their    *)
(* UTF-16 code units.                                                      *)
(* ---------------------------------------------------------------------- *)
MAX_FILE_SIZE == 100 * 1024

\* no file at the path
Missing == [exists |-> FALSE, content |-> <<>>]
\* a file at the path with the given characters
FileOf(chars) == [exists |-> TRUE, content |-> chars]

\* what the reader holds before statSync and readFileSync have returned
NothingHeld == [size |-> -1, read |-> FALSE, content |-> <<>>]

\* bytes of one character in UTF-8
Utf8Length(c) ==
  IF c < 128 THEN 1 ELSE IF c < 2048 THEN 2 ELSE IF c < 65536 THEN 3 ELSE 4

\* code units of one character in UTF-16
Utf16Length(c) == IF c < 65536 THEN 1 ELSE 2

RECURSIVE ByteLength(_)
\* stats.size of a file with these characters
ByteLength(chars) ==
  IF chars = <<>> THEN 0 ELSE Utf8Length(Head(chars)) + ByteLength(Tail(chars))

RECURSIVE StringLength(_)
\* content.length of the string read from a file with these characters
StringLength(chars) ==
  IF chars = <<>> THEN 0 ELSE Utf16Length(Head(chars)) + StringLength(Tail(chars))

\* the maxSize parameter: its default when the argument is absent
MaxSizeOf(maxSize) == IF maxSize.t = "undefined" THEN MAX_FILE_SIZE ELSE maxSize.n

\* JSON.parse's reading of the content: a string literal (a quote, characters
\* that are neither quote, backslash nor control character, a quote) is a
\* scalar; the other contents drawn are malformed
TextOf(chars) ==
  IF /\ Len(chars) >= 2
     /\ chars[1] = 34
     /\ chars[Len(chars)] = 34
     /\ \A i \in 2..(Len(chars) - 1) : chars[i] \notin {34, 92} /\ chars[i] >= 32
    THEN [wellFormed |-> TRUE, tree |-> Scalar]
  ELSE [wellFormed |-> FALSE, tree |-> Undefined]

\* path.basename
path_basename(p) ==
  LET segs == Segments(p)
  IN IF segs = <<>> THEN <<>> ELSE segs[Len(segs)]

\* the error of a system call on a path that names no file
ENOENT(syscall, filePath) ==
  Throw("Error", <<Lit("ENOENT: no such file or directory, "), Lit(syscall),
                   Lit(" '"), Val(filePath), Lit("'")>>)

\* fs.existsSync and the test on it: the next call, or the throw
existsSync_step(f, filePath) ==
  IF ~f.exists
    THEN [pc |-> "done", outcome |-> Throw("Error", <<Lit("File not found: "), Val(filePath)>>)]
  ELSE [pc |-> "statSync", outcome |-> Return(Undefined)]

\* fs.statSync and the test on stats.size, with >= where the code has >
statSync_step_rejectsEqual(f, filePath, maxSize) ==
  IF ~f.exists
    THEN [pc |-> "done", size |-> -1, outcome |-> ENOENT("stat", filePath)]
  ELSE LET size == ByteLength(f.content)
       IN IF size >= maxSize
            THEN [pc |-> "done", size |-> size,
                  outcome |-> Throw("Error",
                    <<Lit("File too large: "), Val(Decimal(size)), Lit(" bytes (max: "),
                      Val(Decimal(maxSize)), Lit(" bytes). File: "), Val(filePath)>>)]
          ELSE [pc |-> "readFileSync", size |-> size, outcome |-> Return(Undefined)]

\* fs.statSync and the test on stats.size
statSync_step(f, filePath, maxSize) ==
  IF ~f.exists
    THEN [pc |-> "done", size |-> -1, outcome |-> ENOENT("stat", filePath)]
  ELSE LET size == ByteLength(f.content)
       IN IF size > maxSize
            THEN [pc |-> "done", size |-> size,
                  outcome |-> Throw("Error",
                    <<Lit("File too large: "), Val(Decimal(size)), Lit(" bytes (max: "),
                      Val(Decimal(maxSize)), Lit(" bytes). File: "), Val(filePath)>>)]
          ELSE [pc |-> "readFileSync", size |-> size, outcome |-> Return(Undefined)]

\* fs.readFileSync(filePath, 'utf8')
readFileSync_step(f, filePath) ==
  IF ~f.exists
    THEN [pc |-> "done", read |-> FALSE, content |-> <<>>,
          outcome |-> ENOENT("open", filePath)]
  ELSE [pc |-> "lengthCheck", read |-> TRUE, content |-> f.content,
        outcome |-> Return(Undefined)]

\* the test on content.length
lengthCheck_step(content, maxSize) ==
  IF StringLength(content) > maxSize
    THEN [pc |-> "done",
          outcome |-> Throw("Error",
            <<Lit("Content too large: "), Val(Decimal(StringLength(content))),
              Lit(" bytes (max: "), Val(Decimal(maxSize)), Lit(")")>>)]
  ELSE [pc |-> "safeParse", outcome |-> Return(Undefined)]

\* safeParse(content) inside the try: a SyntaxError is thrown again as an
\* Error that names the file and carries the parser's message
safeParse_step(content, filePath, base) ==
  LET parsed == safeParse(TextOf(content), base)
  IN IF parsed.thrown = "SyntaxError"
       THEN [base |-> parsed.base,
             outcome |-> Throw("Error",
               <<Lit("Invalid JSON in "), Val(path_basename(filePath)), Lit(": "),
                 Lit("e.message")>>)]
     ELSE [base |-> parsed.base, outcome |-> Return(parsed.value)]

(* ---------------------------------------------------------------------- *)
(* scripts/validators/solidity-validator.js and the Solidity constants     *)
(*                                                                         *)
(* A source text is [t, v, pad]: the string v followed by pad spaces, so   *)
(* that a text of MAX_SOLIDITY_FILE_SIZE characters can be drawn. Every    *)
(* pattern of the validator ends in a character that is no white space, so *)
(* the spaces at the end take part in trim() and in length only.           *)
(* ---------------------------------------------------------------------- *)
MAX_SOLIDITY_FILE_SIZE == 500 * 1024

\* content.length
ContentLength(content) == Len(content.v) + content.pad

\* s has the text lit at index i
MatchAt(s, i, lit) ==
  /\ i >= 1
  /\ i + Len(lit) - 1 <= Len(s)
  /\ SubSeq(s, i, i + Len(lit) - 1) = lit

RECURSIVE SkipWhitespace(_, _)
\* the index after the longest run of \s that starts at i
SkipWhitespace(s, i) ==
  IF i <= Len(s) /\ IsWhitespace(s[i]) THEN SkipWhitespace(s, i + 1) ELSE i

RECURSIVE TrimStart(_)
TrimStart(s) == IF s # <<>> /\ IsWhitespace(Head(s)) THEN TrimStart(Tail(s)) ELSE s

RECURSIVE TrimEnd(_)
TrimEnd(s) ==
  IF s # <<>> /\ IsWhitespace(s[Len(s)]) THEN TrimEnd(SubSeq(s, 1, Len(s) - 1)) ELSE s

\* String.prototype.trim
Trim(s) == TrimEnd(TrimStart(s))

\* /word\s*c/.test(s), c a character that is no white space
TestWordThen(s, word, c) ==
  \E i \in 1..Len(s) :
    /\ MatchAt(s, i, word)
    /\ SkipWhitespace(s, i + Len(word)) <= Len(s)
    /\ s[SkipWhitespace(s, i + Len(word))] = c

\* /pragma\s+solidity\s+[^;]+;/ matches s from index i: white space, then
\* "solidity", then up to the next semicolon a white space and at least one
\* more character
PragmaAt(s, i) ==
  LET k == SkipWhitespace(s, i + 6)
      m == k + 8
      semicolon == IndexOfAny(s, {59}, m)
  IN /\ MatchAt(s, i, <<112, 114, 97, 103, 109, 97>>)
     /\ k > i + 6
     /\ MatchAt(s, k, <<115, 111, 108, 105, 100, 105, 116, 121>>)
     /\ m <= Len(s)
     /\ IsWhitespace(s[m])
     /\ semicolon <= Len(s)
     /\ semicolon - m >= 2

\* /pragma\s+solidity\s+[^;]+;/.test(s)
HasPragma(s) == \E i \in 1..Len(s) : PragmaAt(s, i)

\* pragmaMatch[1].trim() of the leftmost match
PragmaVersion(s) ==
  LET i == Least({ j \in 1..Len(s) : PragmaAt(s, j) })
      m == SkipWhitespace(s, i + 6) + 8
  IN Trim(SubSeq(s, m, IndexOfAny(s, {59}, m) - 1))

\* the warnings about the pragma's version
PragmaWarnings(version) ==
  (IF version # <<>> /\ IsDigit(version[1]) /\ ~includes(version, <<94>>) /\ ~includes(version, <<62>>)
     THEN << <<Lit("Pragma uses exact version ("), Val(version),
               Lit(") - consider using range (e.g., ^0.8.0)")>> >>
   ELSE <<>>)
  \o
  (IF includes(version, <<48, 46, 52, 46>>) \/ includes(version, <<48, 46, 53, 46>>) \/ includes(version, <<48, 46, 54, 46>>)
     THEN << <<Lit("Pragma uses old Solidity version ("), Val(version),
               Lit(") - consider upgrading")>> >>
   ELSE <<>>)

\* the characters a name is made of when it is put into a pattern as it is:
\* letters, digits and _ stand for themselves, "." for any character but a
\* line terminator
IsPatternText(name) ==
  \A i \in 1..Len(name) : IsAlnum(name[i]) \/ name[i] \in {95, 46}

\* new RegExp(...) throws a SyntaxError: the name opens a group it never closes
IsUnterminatedGroup(name) ==
  /\ \E i \in 1..Len(name) : name[i] = 40
  /\ \A i \in 1..Len(name) : name[i] # 41 /\ (IsAlnum(name[i]) \/ name[i] \in {95, 46, 40})

\* the name, as a pattern, matches s from index k
NameAt(s, k, name) ==
  /\ k + Len(name) - 1 <= Len(s)
  /\ \A j \in 1..Len(name) :
       IF name[j] = 46 THEN s[k + j - 1] \notin {10, 13, 8232, 8233}
       ELSE s[k + j - 1] = name[j]

\* new RegExp(`keyword\\s+${name}\\s*[{]`).test(s)
TestDeclaration(s, keyword, name) ==
  \E i \in 1..Len(s) :
    /\ MatchAt(s, i, keyword)
    /\ \E k \in (i + Len(keyword) + 1)..SkipWhitespace(s, i + Len(keyword)) :
         /\ NameAt(s, k, name)
         /\ SkipWhitespace(s, k + Len(name)) <= Len(s)
         /\ s[SkipWhitespace(s, k + Len(name))] = 123

\* new RegExp(`abstract\\s+contract\\s+${name}\\s*[{]`).test(s)
TestAbstractDeclaration(s, name) ==
  \E i \in 1..Len(s) :
    /\ MatchAt(s, i, <<97, 98, 115, 116, 114, 97, 99, 116>>)
    /\ SkipWhitespace(s, i + 8) > i + 8
    /\ MatchAt(s, SkipWhitespace(s, i + 8), <<99, 111, 110, 116, 114, 97, 99, 116>>)
    /\ \E k \in (SkipWhitespace(s, i + 8) + 9)..SkipWhitespace(s, SkipWhitespace(s, i + 8) + 8) :
         /\ NameAt(s, k, name)
         /\ SkipWhitespace(s, k + Len(name)) <= Len(s)
         /\ s[SkipWhitespace(s, k + Len(name))] = 123

\* contractPatterns.some(pattern => pattern.test(content))
hasDeclaration(s, name) ==
  \/ TestDeclaration(s, <<99, 111, 110, 116, 114, 97, 99, 116>>, name)
  \/ TestDeclaration(s, <<105, 110, 116, 101, 114, 102, 97, 99, 101>>, name)
  \/ TestDeclaration(s, <<108, 105, 98, 114, 97, 114, 121>>, name)
  \/ TestAbstractDeclaration(s, name)

\* one warning when the condition holds
WarnIf(condition, text) == IF condition THEN << <<Lit(text)>> >> ELSE <<>>

\* where the leftmost match of /word\s*c/ in s that starts at index from or
\* later ends, -1 when there is none; c is a character that is no white space
ExecWordThen(s, word, c, from) ==
  LET starts == { i \in (from + 1)..Len(s) :
                    /\ MatchAt(s, i, word)
                    /\ SkipWhitespace(s, i + Len(word)) <= Len(s)
                    /\ s[SkipWhitespace(s, i + Len(word))] = c }
  IN IF starts = {} THEN -1 ELSE SkipWhitespace(s, Least(starts) + Len(word))

\* where the leftmost occurrence of lit in s that starts at index from or
\* later ends, -1 when there is none
ExecLiteral(s, lit, from) ==
  LET starts == { i \in (from + 1)..Len(s) : MatchAt(s, i, lit) }
  IN IF starts = {} THEN -1 ELSE Least(starts) + Len(lit) - 1

\* Object.keys(DANGEROUS_SOLIDITY_PATTERNS)
DANGEROUS_SOLIDITY_PATTERN_NAMES ==
  { "selfdestruct", "suicide", "delegatecall", "txOrigin", "blockhash", "callcode" }

\* the match DANGEROUS_SOLIDITY_PATTERNS[name] finds in s, as the index where
\* it ends, -1 when there is none
DANGEROUS_SOLIDITY_PATTERNS(name, s) ==
  LET from == StartIndex(lastIndex[name], name)
  IN CASE name = "selfdestruct" -> ExecWordThen(s, <<115, 101, 108, 102, 100, 101, 115, 116, 114, 117, 99, 116>>, 40, from)
       [] name = "suicide" -> ExecWordThen(s, <<115, 117, 105, 99, 105, 100, 101>>, 40, from)
       [] name = "delegatecall" -> ExecWordThen(s, <<100, 101, 108, 101, 103, 97, 116, 101, 99, 97, 108, 108>>, 40, from)
       [] name = "txOrigin" -> ExecLiteral(s, <<116, 120, 46, 111, 114, 105, 103, 105, 110>>, from)
       [] name = "blockhash" -> ExecWordThen(s, <<98, 108, 111, 99, 107, 104, 97, 115, 104>>, 40, from)
       [] name = "callcode" -> ExecWordThen(s, <<99, 97, 108, 108, 99, 111, 100, 101>>, 40, from)

\* checkDangerousPatterns(content), in the order of DANGEROUS_SOLIDITY_PATTERNS
checkDangerousPatterns(s) ==
  WarnIf(DANGEROUS_SOLIDITY_PATTERNS("selfdestruct", s) >= 0,
         "Contains selfdestruct - verify this is intentional and safe")
  \o WarnIf(DANGEROUS_SOLIDITY_PATTERNS("suicide", s) >= 0,
            "Contains suicide (deprecated) - use selfdestruct if needed")
  \o WarnIf(DANGEROUS_SOLIDITY_PATTERNS("delegatecall", s) >= 0,
            "Contains delegatecall - potential proxy vulnerability, ensure target is trusted")
  \o WarnIf(DANGEROUS_SOLIDITY_PATTERNS("txOrigin", s) >= 0,
            "Uses tx.origin - authentication bypass risk, use msg.sender instead")
  \o WarnIf(DANGEROUS_SOLIDITY_PATTERNS("blockhash", s) >= 0,
            "Uses blockhash - can be manipulated by miners")
  \o WarnIf(DANGEROUS_SOLIDITY_PATTERNS("callcode", s) >= 0,
            "Contains callcode (deprecated) - use delegatecall if needed")

\* the lastIndex of every pattern after checkDangerousPatterns(content): each
\* pattern of DANGEROUS_SOLIDITY_PATTERNS has made one test
checkDangerousPatterns_leaves(s) ==
  [pattern \in DOMAIN lastIndex |->
     IF pattern \in DANGEROUS_SOLIDITY_PATTERN_NAMES
       THEN LeaveIndex(lastIndex[pattern], pattern, DANGEROUS_SOLIDITY_PATTERNS(pattern, s))
     ELSE lastIndex[pattern]]

\* the additional security checks, all warnings
AdditionalWarnings(s) ==
  WarnIf(TestWordThen(s, <<97, 115, 115, 101, 109, 98, 108, 121>>, 123),
         "Contains inline assembly - ensure it's necessary and reviewed")
  \o WarnIf(TestWordThen(s, <<46, 99, 97, 108, 108>>, 40) \/ TestWordThen(s, <<46, 99, 97, 108, 108, 99, 111, 100, 101>>, 40),
            "Contains low-level call - ensure proper error handling and reentrancy protection")
  \o WarnIf(TestWordThen(s, <<101, 99, 114, 101, 99, 111, 118, 101, 114>>, 40),
            "Uses ecrecover - ensure signature malleability is handled")
  \o WarnIf(TestWordThen(s, <<116, 114, 97, 110, 115, 102, 101, 114>>, 40),
            "Uses transfer() - consider using call() with value for better gas handling")

\* !content
IsFalsy(content) ==
  \/ content.t \in {"undefined", "null"}
  \/ content.t = "string" /\ ContentLength(content) = 0
  \/ content.t = "number" /\ content.v \in {<<48>>, <<78, 97, 78>>}

\* validateSolidityStructure with the declaration checked before the pragma
validateSolidityStructure_declarationFirst(content, contractName) ==
  LET s == content.v
      name == contractName.v
      spdx == WarnIf(~includes(s, <<47, 47, 32, 83, 80, 68, 88, 45, 76, 105, 99, 101, 110, 115, 101, 45, 73, 100, 101, 110, 116, 105, 102, 105, 101, 114, 58>>),
                     "Missing SPDX license identifier")
  IN IF IsFalsy(content)
       THEN Return(Fail(<<Lit("Solidity file is empty")>>))
     ELSE IF content.t # "string"
       THEN Throw("TypeError", <<Lit("content.trim is not a function")>>)
     ELSE IF Trim(s) = <<>>
       THEN Return(Fail(<<Lit("Solidity file is empty")>>))
     ELSE IF ContentLength(content) > MAX_SOLIDITY_FILE_SIZE
       THEN Return(Fail(<<Lit("Solidity file too large: "), Val(Decimal(ContentLength(content))),
                          Lit(" bytes (max: "), Val(Decimal(MAX_SOLIDITY_FILE_SIZE)), Lit(")")>>))
     ELSE IF IsUnterminatedGroup(name)
       THEN Throw("SyntaxError",
                  <<Lit("Invalid regular expression: /contract\\s+"), Val(name),
                    Lit("\\s*[{]/: Unterminated group")>>)
     ELSE IF ~hasDeclaration(s, name)
       THEN Return(Fail(<<Lit("No declaration found for "), Val(name),
                          Lit(" (expected contract, interface, library, or abstract contract)")>>))
     ELSE IF ~HasPragma(s)
       THEN Return(Fail(<<Lit("Missing pragma solidity directive")>>))
     ELSE Return([valid |-> TRUE,
                  warnings |-> spdx \o PragmaWarnings(PragmaVersion(s))
                               \o checkDangerousPatterns(s) \o AdditionalWarnings(s)])

\* validateSolidityStructure(content, contractName): the result, or the throw
\* of content.trim on a value without trim and of new RegExp on a name that is
\* no pattern
validateSolidityStructure(content, contractName) ==
  LET s == content.v
      name == contractName.v
      spdx == WarnIf(~includes(s, <<47, 47, 32, 83, 80, 68, 88, 45, 76, 105, 99, 101, 110, 115, 101, 45, 73, 100, 101, 110, 116, 105, 102, 105, 101, 114, 58>>),
                     "Missing SPDX license identifier")
  IN IF IsFalsy(content)
       THEN Return(Fail(<<Lit("Solidity file is empty")>>))
     ELSE IF content.t # "string"
       THEN Throw("TypeError", <<Lit("content.trim is not a function")>>)
     ELSE IF Trim(s) = <<>>
       THEN Return(Fail(<<Lit("Solidity file is empty")>>))
     ELSE IF ContentLength(content) > MAX_SOLIDITY_FILE_SIZE
       THEN Return(Fail(<<Lit("Solidity file too large: "), Val(Decimal(ContentLength(content))),
                          Lit(" bytes (max: "), Val(Decimal(MAX_SOLIDITY_FILE_SIZE)), Lit(")")>>))
     ELSE IF ~HasPragma(s)
       THEN Return(Fail(<<Lit("Missing pragma solidity directive")>>))
     ELSE IF IsUnterminatedGroup(name)
       THEN Throw("SyntaxError",
                  <<Lit("Invalid regular expression: /contract\\s+"), Val(name),
                    Lit("\\s*[{]/: Unterminated group")>>)
     ELSE IF ~hasDeclaration(s, name)
       THEN Return(Fail(<<Lit("No declaration found for "), Val(name),
                          Lit(" (expected contract, interface, library, or abstract contract)")>>))
     ELSE Return([valid |-> TRUE,
                  warnings |-> spdx \o PragmaWarnings(PragmaVersion(s))
                               \o checkDangerousPatterns(s) \o AdditionalWarnings(s)])

\* validateSolidityFile(content, contractName)
validateSolidityFile(content, contractName) ==
  validateSolidityStructure(content, contractName)

(* ---------------------------------------------------------------------- *)
(* scripts/utils/logger.js                                                 *)
(*                                                                         *)
(* A metadata argument is [t, keys, cyclic]: its type, the number of its   *)
(* own enumerable keys, and whether it refers to itself, which is what     *)
(* JSON.stringify throws on. A printed line is [line, level, text].        *)
(* ---------------------------------------------------------------------- *)
\* const logFormat = process.env.LOG_FORMAT || 'human'
logFormat == IF env.LOG_FORMAT = "" THEN "human" ELSE env.LOG_FORMAT

\* the default of the metadata parameter: metadata = {}
MetadataOf(metadata) ==
  IF metadata.t = "undefined" THEN [t |-> "object", keys |-> 0, cyclic |-> FALSE]
  ELSE metadata

Line(kind, level, text) == [line |-> kind, level |-> level, text |-> text]

\* log(level, message, metadata): the lines it prints, and what it throws
log(level, message, metadata) ==
  LET sanitizedMessage == sanitizeForTerminal(message).v
      given == MetadataOf(metadata)
  IN IF logFormat = "json"
       \* JSON.stringify(logEntry), the metadata spread into the entry
       THEN IF given.t = "object" /\ given.cyclic
              THEN [thrown |-> "TypeError", lines |-> <<>>]
            ELSE [thrown |-> "", lines |-> <<Line("entry", level, sanitizedMessage)>>]
     \* Object.keys(metadata) after the message is printed
     ELSE IF given.t = "null"
       THEN [thrown |-> "TypeError", lines |-> <<Line("message", level, sanitizedMessage)>>]
     ELSE IF given.keys > 0 /\ given.cyclic
       THEN [thrown |-> "TypeError", lines |-> <<Line("message", level, sanitizedMessage)>>]
     ELSE IF given.keys > 0
       THEN [thrown |-> "", lines |-> <<Line("message", level, sanitizedMessage),
                                       Line("metadata", level, <<>>)>>]
     ELSE [thrown |-> "", lines |-> <<Line("message", level, sanitizedMessage)>>]

\* a counter after the call that ends in counter++: log comes first, and a
\* throw of log leaves the function before the increment
Incremented(counter, logged) == IF logged.thrown = "" THEN counter + 1 ELSE counter

\* error(message, metadata)
error(message, metadata) ==
  LET logged == log("error", message, metadata)
  IN [thrown |-> logged.thrown, lines |-> logged.lines,
      errorCount |-> Incremented(errorCount, logged)]

\* warn(message, metadata)
warn(message, metadata) ==
  LET logged == log("warn", message, metadata)
  IN [thrown |-> logged.thrown, lines |-> logged.lines,
      warningCount |-> Incremented(warningCount, logged)]

\* info(message, metadata)
info(message, metadata) ==
  LET logged == log("info", message, metadata)
  IN [thrown |-> logged.thrown, lines |-> logged.lines,
      infoCount |-> Incremented(infoCount, logged)]

\* success(message, metadata)
success(message, metadata) == log("success", message, metadata)

\* debug(message, metadata): logs only when process.env.DEBUG is set
debug(message, metadata) ==
  IF env.DEBUG # "" THEN log("debug", message, metadata)
  ELSE [thrown |-> "", lines |-> <<>>]

\* { type: 'section' }
SectionMetadata == [t |-> "object", keys |-> 1, cyclic |-> FALSE]

\* section(title)
section(title) ==
  LET sanitized == sanitizeForTerminal(title)
  IN IF logFormat = "json" THEN log("info", sanitized, SectionMetadata)
     ELSE [thrown |-> "",
           lines |-> <<Line("rule", "", <<>>), Line("title", "", sanitized.v),
                       Line("rule", "", <<>>)>>]

\* { errors, warnings, info, total }
SummaryMetadata == [t |-> "object", keys |-> 4, cyclic |-> FALSE]

\* summary(): the section, then the counters
summary ==
  LET headed == section(Str(<<86, 97, 108, 105, 100, 97, 116, 105, 111, 110, 32, 83, 117, 109, 109, 97, 114, 121>>))
      total == errorCount + warningCount
      counted ==
        IF logFormat = "json" THEN log("info", Str(<<86, 97, 108, 105, 100, 97, 116, 105, 111, 110, 32, 99, 111, 109, 112, 108, 101, 116, 101>>), SummaryMetadata)
        ELSE [thrown |-> "",
              lines |-> <<Line("total", "", Decimal(total)),
                          Line("errors", "", Decimal(errorCount)),
                          Line("warnings", "", Decimal(warningCount)),
                          Line("info", "", Decimal(infoCount))>>]
  IN [thrown |-> counted.thrown, lines |-> headed.lines \o counted.lines]

\* getCounters()
getCounters == [errors |-> errorCount, warnings |-> warningCount, info |-> infoCount]

(* ---------------------------------------------------------------------- *)
(* The inputs drawn                                                        *)
(* ---------------------------------------------------------------------- *)
\* . / \ NUL SOH LF DEL NEL(C1) A a 1 _
NameAlphabet == {46, 47, 92, 0, 1, 10, 127, 133, 65, 97, 49, 95}

NameInputs == { Str(s) : s \in StringsUpTo(NameAlphabet, MaxNameLen) } \cup NonStrings

BaseDirInputs ==
  { Str(<<47, 98, 97, 115, 101>>), Str(<<47, 98, 97, 115, 101, 47>>), Str(<<47>>), Str(<<98, 97, 115, 101>>), Str(<<>>),
    Str(<<47, 98, 97, 115, 101, 47, 46, 46, 47, 111, 116, 104, 101, 114>>), [t |-> "number", v |-> <<49, 50, 51>>] }

PartInputs ==
  { Str(<<>>), Str(<<46>>), Str(<<46, 46>>), Str(<<97>>), Str(<<46, 46, 97>>),
    Str(<<97, 47, 98>>), Str(<<97, 92, 98>>), Str(<<97, 0>>), Str(<<97, 1>>),
    [t |-> "number", v |-> <<49, 50, 51>>] }

PartsInputs == UNION { [1..k -> PartInputs] : k \in 0..MaxParts }

\* addresses whose checksummed form the model knows, in lower case
KnownAddresses ==
  { <<48, 120, 48, 48, 99, 49, 101, 53, 49, 53, 101, 97, 57, 53, 55, 57, 56, 53, 54, 51, 48, 52, 49, 57, 56, 101, 102, 98, 49, 53, 102, 53, 50, 53, 97, 48, 98, 98, 53, 48, 102, 54>>,
    <<48, 120, 53, 97, 97, 101, 98, 54, 48, 53, 51, 102, 51, 101, 57, 52, 99, 57, 98, 57, 97, 48, 57, 102, 51, 51, 54, 54, 57, 52, 51, 53, 101, 55, 101, 102, 49, 98, 101, 97, 101, 100>> }

\* s with the case of its k-th hex letter flipped (s itself when it has fewer)
FlipLetter(s, k) ==
  LET letters == { i \in 3..Len(s) : s[i] \in (65..70) \cup (97..102) }
      at == { i \in letters : Cardinality({ j \in letters : j <= i }) = k }
  IN [i \in 1..Len(s) |->
        IF i \in at THEN (IF s[i] >= 97 THEN s[i] - 32 ELSE s[i] + 32) ELSE s[i]]

\* an address written in lower case, in upper case, checksummed, and
\* checksummed but for one letter
AddressVariants(a) ==
  { a, <<48, 120>> \o toUpperCase(SubSeq(a, 3, Len(a))), getChecksumAddress(a) }
  \cup { FlipLetter(getChecksumAddress(a), k) : k \in 1..MaxFlip }

Zeros(n) == [i \in 1..n |-> 48]

AddressInputs ==
  { Str(s) : s \in UNION { AddressVariants(a) : a \in KnownAddresses } }
  \cup { Str(ZeroAddress), Str(<<48, 120>> \o Zeros(39) \o <<49>>),
         Str(<<48, 120, 49, 50, 51>>), Str(<<48, 120>> \o Zeros(39)), Str(<<48, 120>> \o Zeros(41)),
         Str(<<48, 88>> \o Zeros(40)), Str(<<48, 120, 103>> \o Zeros(39)),
         Str(<<48, 120, 46, 46>> \o Zeros(38)), Str(<<48, 120, 47>> \o Zeros(39)),
         Str(<<48, 120, 92>> \o Zeros(39)), Str(<<46, 46, 47, 46, 46, 47, 101, 116, 99>>) }
  \cup NonStrings

ContextInputs == { Str(<<84, 101, 115, 116, 84, 111, 107, 101, 110>>), [t |-> "undefined", v |-> <<117, 110, 100, 101, 102, 105, 110, 101, 100>>] }

ParentPathInputs ==
  { Str(<<47, 114, 101, 112, 111, 47, 116, 111, 107, 101, 110, 115>>), Str(<<47, 114, 101, 112, 111, 47, 116, 111, 107, 101, 110, 115, 47>>), Str(<<47>>), Str(<<116, 111, 107, 101, 110, 115>>), Str(<<>>),
    [t |-> "undefined", v |-> <<117, 110, 100, 101, 102, 105, 110, 101, 100>>] }

\* keys of the JSON objects drawn
JsonKeys == {"__proto__", "constructor", "prototype", "polluted"}

IndexKey(i) == <<"0", "1", "2", "3", "4", "5", "6", "7">>[i]

RECURSIVE JsonTreesOfSize(_), JsonForestsOfSize(_)
\* the sequences of JSON values with exactly n nodes in all
JsonForestsOfSize(n) ==
  IF n = 0 THEN {<<>>}
  ELSE UNION { LET rest == JsonForestsOfSize(n - s)
               IN { <<t>> \o f : t \in JsonTreesOfSize(s), f \in rest } : s \in 1..n }

\* the sequences of distinct keys of length n
KeySequences(n) == { ks \in [1..n -> JsonKeys] : \A i, j \in 1..n : i # j => ks[i] # ks[j] }

\* the JSON values with exactly n nodes: a scalar, or an array or an object
\* whose members have n - 1 nodes in all
JsonTreesOfSize(n) ==
  LET forests == JsonForestsOfSize(n - 1)
  IN (IF n = 1 THEN {Scalar} ELSE {})
     \cup { [t |-> "array", kids |-> [i \in 1..Len(f) |-> <<IndexKey(i), f[i]>>]] :
              f \in forests }
     \cup UNION { { [t |-> "object", kids |-> [i \in 1..Len(f) |-> <<ks[i], f[i]>>]] :
                      ks \in KeySequences(Len(f)) } : f \in forests }

\* the JSON values with at most n nodes
JsonTrees(n) == UNION { JsonTreesOfSize(k) : k \in 1..n }

\* the texts handed to safeParse: well-formed with a standard parse, or malformed
JsonTexts ==
  { [wellFormed |-> TRUE, tree |-> t] : t \in JsonTrees(MaxNodes) }
  \cup { [wellFormed |-> FALSE, tree |-> Undefined] }

\* how a host is meant: a name in lower case, the four octets of an IPv4
\* address or the eight pieces of an IPv6 address, with the text written
NamedHosts ==
  { <<108, 111, 99, 97, 108, 104, 111, 115, 116>>, <<109, 101, 116, 97, 100, 97, 116, 97, 46, 103, 111, 111, 103, 108, 101, 46, 105, 110, 116, 101, 114, 110, 97, 108>>, <<109, 101, 116, 97, 100, 97, 116, 97>>, <<101, 120, 97, 109, 112, 108, 101, 46, 99, 111, 109>>, <<103, 105, 116, 104, 117, 98, 46, 99, 111, 109>> }

\* s with its first character in upper case
Capitalised(s) == <<toUpperCase(s)[1]>> \o Tail(s)

NameHostInputs ==
  UNION { { [kind |-> "name", name |-> n, text |-> n],
                 [kind |-> "name", name |-> n, text |-> toUpperCase(n)],
                 [kind |-> "name", name |-> n, text |-> Capitalised(n)] } : n \in NamedHosts }

\* octets on and beside the borders of the blocked ranges
IPv4Inputs ==
  { <<a, b, cd[1], cd[2]>> :
      a \in {0, 8, 10, 11, 127, 169, 172, 192},
      b \in {0, 15, 16, 31, 32, 168, 254},
      cd \in { <<0, 1>>, <<169, 254>>, <<169, 253>> } }

DottedDecimal(o) ==
  Decimal(o[1]) \o <<46>> \o Decimal(o[2]) \o <<46>> \o Decimal(o[3]) \o <<46>> \o Decimal(o[4])

\* IPv4 addresses in dotted decimal, and the loopback and private addresses
\* written in fewer parts, as one number, in hexadecimal and in octal
IPv4HostInputs ==
  { [kind |-> "ipv4", octets |-> o, text |-> DottedDecimal(o)] : o \in IPv4Inputs }
  \cup { [kind |-> "ipv4", octets |-> <<127, 0, 0, 1>>, text |-> <<49, 50, 55, 46, 49>>],
         [kind |-> "ipv4", octets |-> <<127, 0, 0, 1>>, text |-> <<50, 49, 51, 48, 55, 48, 54, 52, 51, 51>>],
         [kind |-> "ipv4", octets |-> <<127, 0, 0, 1>>, text |-> <<48, 120, 55, 102, 46, 48, 46, 48, 46, 49>>],
         [kind |-> "ipv4", octets |-> <<127, 0, 0, 1>>, text |-> <<48, 49, 55, 55, 46, 48, 46, 48, 46, 49>>],
         [kind |-> "ipv4", octets |-> <<10, 0, 0, 1>>, text |-> <<49, 48, 46, 49>>],
         [kind |-> "ipv4", octets |-> <<192, 168, 0, 1>>, text |-> <<49, 57, 50, 46, 49, 54, 56, 46, 49>>],
         [kind |-> "ipv4", octets |-> <<8, 8, 8, 8>>, text |-> <<56, 46, 56, 46, 56, 46, 56>>] }

\* bracketed IPv6 literals: loopback, link-local, unique-local and public
IPv6HostInputs ==
  { [kind |-> "ipv6", pieces |-> <<0, 0, 0, 0, 0, 0, 0, 1>>, text |-> <<91, 58, 58, 49, 93>>],
    [kind |-> "ipv6", pieces |-> <<65152, 0, 0, 0, 0, 0, 0, 1>>, text |-> <<91, 102, 101, 56, 48, 58, 58, 49, 93>>],
    [kind |-> "ipv6", pieces |-> <<65152, 0, 0, 0, 0, 0, 0, 1>>, text |-> <<91, 70, 69, 56, 48, 58, 58, 49, 93>>],
    [kind |-> "ipv6", pieces |-> <<64512, 0, 0, 0, 0, 0, 0, 1>>, text |-> <<91, 102, 99, 48, 48, 58, 58, 49, 93>>],
    [kind |-> "ipv6", pieces |-> <<64768, 0, 0, 0, 0, 0, 0, 1>>, text |-> <<91, 102, 100, 48, 48, 58, 58, 49, 93>>],
    [kind |-> "ipv6", pieces |-> <<64786, 13398, 0, 0, 0, 0, 0, 1>>, text |-> <<91, 102, 100, 49, 50, 58, 51, 52, 53, 54, 58, 58, 49, 93>>],
    [kind |-> "ipv6", pieces |-> <<8193, 3512, 0, 0, 0, 0, 0, 1>>, text |-> <<91, 50, 48, 48, 49, 58, 100, 98, 56, 58, 58, 49, 93>>] }

HostInputs == NameHostInputs \cup IPv4HostInputs \cup IPv6HostInputs

\* what is written around the host: credentials, a port, a path
UrlShapes ==
  { [credentials |-> <<>>, port |-> <<>>, path |-> <<47>>],
    [credentials |-> <<>>, port |-> <<>>, path |-> <<>>],
    [credentials |-> <<>>, port |-> <<58, 52, 52, 51>>, path |-> <<47>>],
    [credentials |-> <<>>, port |-> <<58, 56, 48, 56, 48>>, path |-> <<47>>],
    [credentials |-> <<117, 115, 101, 114, 64>>, port |-> <<>>, path |-> <<47, 108, 97, 116, 101, 115, 116, 47, 109, 101, 116, 97, 45, 100, 97, 116, 97, 47>>],
    [credentials |-> <<>>, port |-> <<>>, path |-> <<63, 113, 61, 49, 35, 116, 111, 112>>] }

\* a URL with the host h written in it
UrlOf(h, shape) ==
  Str(<<104, 116, 116, 112, 115, 58, 47, 47>> \o shape.credentials \o h.text \o shape.port \o shape.path)

NoHost == [kind |-> "none"]

\* a path of n characters
LongPath(n) == [i \in 1..n |-> IF i = 1 THEN 47 ELSE 97]

\* values that are no URL of the shapes above: not a string, of another
\* scheme, with white space, too long, at the length limit, or not parsable
OtherUrlInputs ==
  NonStrings
  \cup { Str(<<104, 116, 116, 112, 58, 47, 47, 101, 120, 97, 109, 112, 108, 101, 46, 99, 111, 109, 47>>), Str(<<102, 116, 112, 58, 47, 47, 101, 120, 97, 109, 112, 108, 101, 46, 99, 111, 109, 47>>), Str(<<104, 116, 116, 112, 115, 58, 47, 47>>),
         Str(<<72, 84, 84, 80, 83, 58, 47, 47, 101, 120, 97, 109, 112, 108, 101, 46, 99, 111, 109, 47>>),
         Str(<<104, 116, 116, 112, 115, 58, 47, 47, 101, 120, 97, 32, 109, 112, 108, 101, 46, 99, 111, 109, 47>>), Str(<<104, 116, 116, 112, 115, 58, 47, 47, 101, 120, 97, 109, 112, 108, 101, 46, 99, 111, 109, 47, 10>>),
         Str(<<104, 116, 116, 112, 115, 58, 47, 47, 101, 120, 97, 109, 112, 108, 101, 46, 99, 111, 109, 47, 9, 97>>),
         Str(<<104, 116, 116, 112, 115, 58, 47, 47, 101, 120, 97, 109, 112, 108, 101, 46, 99, 111, 109>> \o LongPath(MAX_URL_LENGTH - 19)),
         Str(<<104, 116, 116, 112, 115, 58, 47, 47, 101, 120, 97, 109, 112, 108, 101, 46, 99, 111, 109>> \o LongPath(MAX_URL_LENGTH - 18)),
         Str(<<104, 116, 116, 112, 115, 58, 47, 47, 101, 120, 97, 109, 112, 108, 101, 46, 99, 111, 109, 58, 57, 57, 57, 57, 57, 47>>), Str(<<104, 116, 116, 112, 115, 58, 47, 47, 101, 120, 97, 109, 112, 108, 101, 46, 99, 111, 109, 58, 56, 111, 47>>),
         Str(<<104, 116, 116, 112, 115, 58, 47, 47, 101, 120, 97, 94, 109, 112, 108, 101, 46, 99, 111, 109, 47>>), Str(<<104, 116, 116, 112, 115, 58, 47, 47, 91, 58, 58, 49, 47>>),
         Str(<<104, 116, 116, 112, 115, 58, 47, 47, 49, 46, 50, 46, 51, 46, 52, 46, 53, 47>>), Str(<<104, 116, 116, 112, 115, 58, 47, 47, 50, 53, 54, 46, 49, 46, 49, 46, 49, 47>>),
         Str(<<104, 116, 116, 112, 115, 58, 47, 47, 47, 101, 120, 97, 109, 112, 108, 101, 46, 99, 111, 109, 47>>) }

\* the URLs handed to validateURL, each with the host written in it
\* ports written after a host: numbers on and beside the limits, with a
\* leading zero, none after the colon, and one that is no number
PortShapes ==
  { [credentials |-> <<>>, port |-> p, path |-> <<47>>] :
      p \in { <<58>>, <<58, 48>>, <<58, 56, 48>>, <<58, 52, 52, 50>>, <<58, 52, 52, 52>>, <<58, 48, 52, 52, 51>>, <<58, 56, 52, 52, 51>>, <<58, 54, 53, 53, 51, 53>>,
              <<58, 54, 53, 53, 51, 54>>, <<58, 57, 57, 57, 57, 57>>, <<58, 56, 111>> } }

\* hosts written with the ports above: names, an IPv4 and an IPv6 literal
PortHostInputs ==
  { h \in HostInputs :
      h.text \in { <<101, 120, 97, 109, 112, 108, 101, 46, 99, 111, 109>>, <<71, 73, 84, 72, 85, 66, 46, 67, 79, 77>>, <<108, 111, 99, 97, 108, 104, 111, 115, 116>>, <<56, 46, 56, 46, 56, 46, 56>>, <<91, 50, 48, 48, 49, 58, 100, 98, 56, 58, 58, 49, 93>> } }

NoShape == [credentials |-> <<>>, port |-> <<>>, path |-> <<>>]

\* the URLs handed to validateURL, each with the host and the shape written
UrlInputs ==
  { [urlString |-> UrlOf(h, shape), written |-> h, shape |-> shape] :
      h \in HostInputs, shape \in UrlShapes }
  \cup { [urlString |-> UrlOf(h, shape), written |-> h, shape |-> shape] :
           h \in PortHostInputs, shape \in PortShapes }
  \cup { [urlString |-> u, written |-> NoHost, shape |-> NoShape] : u \in OtherUrlInputs }

FieldNameInputs == { Absent, Str(<<119, 101, 98, 115, 105, 116, 101>>) }

\* names of ABI parameters: none, an ordinary one and the reserved ones
ParamNameInputs ==
  { Absent, Str(<<97, 109, 111, 117, 110, 116>>), Str(<<95, 95, 112, 114, 111, 116, 111, 95, 95>>), Str(<<99, 111, 110, 115, 116, 114, 117, 99, 116, 111, 114>>), Str(<<112, 114, 111, 116, 111, 116, 121, 112, 101>>) }

Param(type, name) == [t |-> "object", type |-> Str(type), name |-> name]

Tuple(name, components) ==
  [t |-> "object", type |-> Str(<<116, 117, 112, 108, 101>>), name |-> name, components |-> components]

LeafParams == { Param(<<117, 105, 110, 116, 50, 53, 54>>, name) : name \in ParamNameInputs }

RECURSIVE ParamsOfDepth(_)
\* parameters whose tuples nest at most d deep
ParamsOfDepth(d) ==
  IF d = 0 THEN LeafParams
  ELSE LeafParams
       \cup { Tuple(name, Arr(<<p>>)) :
                name \in {Str(<<97, 109, 111, 117, 110, 116>>), Str(<<95, 95, 112, 114, 111, 116, 111, 95, 95>>)}, p \in ParamsOfDepth(d - 1) }

ParamsInputs ==
  {Absent}
  \cup { Arr(<<p>>) : p \in ParamsOfDepth(MaxTupleDepth) }
  \cup { Arr(<<Param(<<97, 100, 100, 114, 101, 115, 115>>, Str(<<116, 111>>)), p>>) : p \in LeafParams }

OutputsInputs ==
  { Absent,
    Arr(<<Param(<<98, 111, 111, 108>>, Absent)>>),
    Arr(<<Param(<<98, 111, 111, 108>>, Str(<<112, 114, 111, 116, 111, 116, 121, 112, 101>>))>>),
    Arr(<<Tuple(Absent, Arr(<<Param(<<98, 111, 111, 108>>, Str(<<99, 111, 110, 115, 116, 114, 117, 99, 116, 111, 114>>))>>))>>) }

\* well-formed ABI items of every type
ItemInputs ==
  { [t |-> "object", type |-> Str(VALID_ABI_TYPES[k]), name |-> Str(<<102>>),
     inputs |-> inputs, outputs |-> outputs, stateMutability |-> mutability] :
      k \in 1..Len(VALID_ABI_TYPES), inputs \in ParamsInputs, outputs \in OutputsInputs,
      mutability \in {Absent, Str(<<118, 105, 101, 119>>)} }

Item(type, name, inputs) ==
  [t |-> "object", type |-> type, name |-> name, inputs |-> inputs]

\* values that are no well-formed ABI: each breaks one rule of the validator
OtherAbiInputs ==
  { Str(<<91, 93>>), [t |-> "null", v |-> <<110, 117, 108, 108>>], Absent, Arr(<<>>),
    Arr(<<[t |-> "null", v |-> <<110, 117, 108, 108>>]>>), Arr(<<Str(<<102, 117, 110, 99, 116, 105, 111, 110>>)>>),
    Arr(<<Arr(<<>>)>>),
    Arr(<<[t |-> "object", name |-> Str(<<102>>)]>>),
    Arr(<<Item([t |-> "number", v |-> <<49, 50, 51>>], Str(<<102>>), Arr(<<>>))>>),
    Arr(<<Item(Str(<<>>), Str(<<102>>), Arr(<<>>))>>),
    Arr(<<Item(Str(<<98, 111, 103, 117, 115>>), Str(<<102>>), Arr(<<>>))>>),
    Arr(<<Item(Str(<<102, 117, 110, 99, 116, 105, 111, 110>>), Absent, Arr(<<>>))>>),
    Arr(<<Item(Str(<<101, 118, 101, 110, 116>>), [t |-> "number", v |-> <<49, 50, 51>>], Arr(<<>>))>>),
    Arr(<<Item(Str(<<101, 114, 114, 111, 114>>), Str(<<49, 120>>), Arr(<<>>))>>),
    Arr(<<Item(Str(<<102, 97, 108, 108, 98, 97, 99, 107>>), Absent, Absent)>>),
    Arr(<<Item(Str(<<102, 117, 110, 99, 116, 105, 111, 110>>), Str(<<102>>), Str(<<120>>))>>),
    Arr(<<Item(Str(<<102, 117, 110, 99, 116, 105, 111, 110>>), Str(<<102>>), Arr(<<[t |-> "null", v |-> <<110, 117, 108, 108>>]>>))>>),
    Arr(<<Item(Str(<<102, 117, 110, 99, 116, 105, 111, 110>>), Str(<<102>>), Arr(<<Str(<<117, 105, 110, 116, 50, 53, 54>>)>>))>>),
    Arr(<<Item(Str(<<102, 117, 110, 99, 116, 105, 111, 110>>), Str(<<102>>), Arr(<<[t |-> "object", name |-> Str(<<97>>)]>>))>>),
    Arr(<<Item(Str(<<102, 117, 110, 99, 116, 105, 111, 110>>), Str(<<102>>),
               Arr(<<[t |-> "object", type |-> [t |-> "number", v |-> <<49, 50, 51>>]]>>))>>),
    Arr(<<Item(Str(<<102, 117, 110, 99, 116, 105, 111, 110>>), Str(<<102>>),
               Arr(<<Param(<<117, 105, 110, 116, 50, 53, 54>>, [t |-> "number", v |-> <<49, 50, 51>>])>>))>>),
    Arr(<<Item(Str(<<102, 117, 110, 99, 116, 105, 111, 110>>), Str(<<102>>),
               Arr(<<Param(<<117, 105, 110, 116, 50, 53, 54>>, [t |-> "null", v |-> <<110, 117, 108, 108>>])>>))>>),
    Arr(<<Item(Str(<<102, 117, 110, 99, 116, 105, 111, 110>>), Str(<<102>>), Arr(<<Param(<<117, 105, 110, 116, 50, 53, 54>>, Str(<<>>))>>))>>),
    Arr(<<Item(Str(<<102, 117, 110, 99, 116, 105, 111, 110>>), Str(<<102>>), Arr(<<Param(<<117, 105, 110, 116, 50, 53, 54>>, Str(<<49, 120>>))>>))>>),
    Arr(<<Item(Str(<<102, 117, 110, 99, 116, 105, 111, 110>>), Str(<<102>>), Arr(<<Param(<<117, 105, 110, 116, 50, 53, 54, 59>>, Str(<<97>>))>>))>>),
    Arr(<<Item(Str(<<102, 117, 110, 99, 116, 105, 111, 110>>), Str(<<102>>), Arr(<<Param(<<116, 117, 112, 108, 101, 40, 117, 105, 110, 116, 50, 53, 54, 44, 32, 98, 111, 111, 108, 41, 91, 93>>, Str(<<97>>))>>))>>),
    Arr(<<Item(Str(<<102, 117, 110, 99, 116, 105, 111, 110>>), Str(<<102>>), Arr(<<Tuple(Str(<<97>>), Str(<<120>>))>>))>>),
    Arr(<<Item(Str(<<102, 117, 110, 99, 116, 105, 111, 110>>), Str(<<102>>), Arr(<<Tuple(Str(<<97>>), Arr(<<>>))>>))>>),
    Arr(<<Item(Str(<<101, 118, 101, 110, 116>>), Str(<<84, 114, 97, 110, 115, 102, 101, 114>>), Arr(<<Tuple(Str(<<97>>), Absent)>>))>>),
    Arr(<<[t |-> "object", type |-> Str(<<102, 117, 110, 99, 116, 105, 111, 110>>), name |-> Str(<<102>>),
           stateMutability |-> Str(<<98, 97, 100>>)]>>),
    Arr(<<[t |-> "object", type |-> Str(<<102, 117, 110, 99, 116, 105, 111, 110>>), name |-> Str(<<102>>),
           stateMutability |-> [t |-> "number", v |-> <<49, 50, 51>>]]>>),
    Arr(<<Item(Str(<<99, 111, 110, 115, 116, 114, 117, 99, 116, 111, 114>>), Absent, Arr(<<>>)),
          Item(Str(<<101, 118, 101, 110, 116>>), Str(<<84, 114, 97, 110, 115, 102, 101, 114>>), Arr(<<Param(<<117, 105, 110, 116, 50, 53, 54>>, Str(<<112, 114, 111, 116, 111, 116, 121, 112, 101>>))>>))>>),
    Arr(<<Item(Str(<<101, 118, 101, 110, 116>>), Str(<<84, 114, 97, 110, 115, 102, 101, 114>>), Absent),
          Item(Str(<<101, 114, 114, 111, 114>>), Str(<<70, 97, 105, 108, 101, 100>>), Arr(<<Param(<<117, 105, 110, 116, 50, 53, 54>>, Str(<<118, 97, 108, 117, 101>>))>>))>>) }

ContractNameInputs == { Absent, Str(<<84, 101, 115, 116>>) }

\* the calls of validateABI: a well-formed item under a contract name, and
\* the other values with and without one
\* items with soft omissions only (no inputs, no outputs), and items that each
\* break one hard rule
OrderItemInputs ==
  { [t |-> "object", type |-> Str(<<102, 117, 110, 99, 116, 105, 111, 110>>), name |-> Str(<<102>>)],
    [t |-> "object", type |-> Str(<<101, 118, 101, 110, 116>>), name |-> Str(<<84, 114, 97, 110, 115, 102, 101, 114>>)],
    [t |-> "object", type |-> Str(<<102, 97, 108, 108, 98, 97, 99, 107>>)],
    [t |-> "object", type |-> Str(<<98, 111, 103, 117, 115>>)],
    [t |-> "object", type |-> Str(<<102, 117, 110, 99, 116, 105, 111, 110>>)],
    Item(Str(<<99, 111, 110, 115, 116, 114, 117, 99, 116, 111, 114>>), Absent, Arr(<<Param(<<117, 105, 110, 116, 50, 53, 54>>, Str(<<49, 120>>))>>)) }

\* ABIs of up to MaxItems of these items
OrderAbiInputs ==
  { Arr(items) : items \in UNION { [1..k -> OrderItemInputs] : k \in 1..MaxItems } }

AbiInputs ==
  { [abi |-> Arr(<<item>>), contractName |-> Str(<<84, 101, 115, 116>>)] : item \in ItemInputs }
  \cup { [abi |-> abi, contractName |-> Str(<<84, 101, 115, 116>>)] : abi \in OrderAbiInputs }
  \cup { [abi |-> abi, contractName |-> contractName] :
           abi \in OtherAbiInputs, contractName \in ContractNameInputs }

\* a space, LF, CR, TAB and NBSP beside a letter and a slash
BodyAlphabet == {97, 47, 32, 10, 13, 9, 160}

SchemeInputs == { <<104, 116, 116, 112, 115, 58, 47, 47>>, <<104, 116, 116, 112, 58, 47, 47>>, <<72, 84, 84, 80, 83, 58, 47, 47>>, <<>> }

\* the values handed to validateURLFormat: a scheme and a short body, URLs
\* around the length limit with and without a line break, and non-strings
FormatInputs ==
  { Str(scheme \o body) :
      scheme \in SchemeInputs, body \in StringsUpTo(BodyAlphabet, MaxBodyLen) }
  \cup { Str(<<104, 116, 116, 112, 115, 58, 47, 47, 101, 46, 99, 111, 109>> \o LongPath(MAX_URL_LENGTH - 13)),
         Str(<<104, 116, 116, 112, 115, 58, 47, 47, 101, 46, 99, 111, 109>> \o LongPath(MAX_URL_LENGTH - 12)),
         Str(<<104, 116, 116, 112, 115, 58, 47, 47, 101, 46, 99, 111, 109>> \o LongPath(MAX_URL_LENGTH - 14) \o <<10>>),
         Str(<<104, 116, 116, 112, 115, 58, 47, 47, 101, 46, 99, 111, 109>> \o LongPath(MAX_URL_LENGTH - 13) \o <<10>>),
         Str(<<104, 116, 116, 112, 115, 58, 47, 47, 101, 46, 99, 111, 109>> \o LongPath(MAX_URL_LENGTH - 13) \o <<32>>),
         Str(<<104, 116, 116, 112, 58, 47, 47, 101, 46, 99, 111, 109>> \o LongPath(MAX_URL_LENGTH - 11)) }
  \cup NonStrings

\* an IPv6 literal without its brackets
Unbracketed(text) == SubSeq(text, 2, Len(text) - 1)

\* the host names handed to isBlockedHost: names in three letter cases, IPv4
\* addresses in dotted decimal, IPv6 addresses without brackets, non-strings
HostnameInputs ==
  { [hostname |-> Str(h.text), written |-> h] : h \in NameHostInputs }
  \cup { [hostname |-> Str(DottedDecimal(o)),
          written |-> [kind |-> "ipv4", octets |-> o, text |-> DottedDecimal(o)]] :
           o \in IPv4Inputs }
  \cup { [hostname |-> Str(Unbracketed(h.text)), written |-> h] : h \in IPv6HostInputs }
  \cup { [hostname |-> Str(<<102, 101, 56, 48, 58, 58, 100, 101, 97, 100, 58, 98, 101, 101, 102>>),
          written |-> [kind |-> "ipv6", pieces |-> <<65152, 0, 0, 0, 0, 0, 57005, 48879>>,
                       text |-> <<91, 102, 101, 56, 48, 58, 58, 100, 101, 97, 100, 58, 98, 101, 101, 102, 93>>]],
         [hostname |-> Str(<<102, 99, 49, 50, 58, 58, 49>>),
          written |-> [kind |-> "ipv6", pieces |-> <<64530, 0, 0, 0, 0, 0, 0, 1>>,
                       text |-> <<91, 102, 99, 49, 50, 58, 58, 49, 93>>]],
         [hostname |-> Str(<<70, 68, 48, 48, 58, 58, 49, 50, 51, 52>>),
          written |-> [kind |-> "ipv6", pieces |-> <<64768, 0, 0, 0, 0, 0, 0, 4660>>,
                       text |-> <<91, 70, 68, 48, 48, 58, 58, 49, 50, 51, 52, 93>>]] }
  \cup { [hostname |-> v, written |-> NoHost] : v \in NonStrings }

\* values of a URL field: none, null, an empty string, a number, a good URL,
\* a blocked one and one of another scheme
FieldValueInputs ==
  { Absent, [t |-> "null", v |-> <<110, 117, 108, 108>>], Str(<<>>), [t |-> "number", v |-> <<49, 50, 51>>],
    Str(<<104, 116, 116, 112, 115, 58, 47, 47, 101, 120, 97, 109, 112, 108, 101, 46, 99, 111, 109, 47>>), Str(<<104, 116, 116, 112, 115, 58, 47, 47, 108, 111, 99, 97, 108, 104, 111, 115, 116, 47>>), Str(<<104, 116, 116, 112, 58, 47, 47, 101, 120, 97, 109, 112, 108, 101, 46, 99, 111, 109>>) }

\* objects with the properties website and logoURI (a property may hold
\* undefined); support is a property they never have
ObjInputs ==
  { << <<<<119, 101, 98, 115, 105, 116, 101>>, w>>, <<<<108, 111, 103, 111, 85, 82, 73>>, l>> >> : w \in FieldValueInputs, l \in FieldValueInputs }

UrlFieldsInputs ==
  UNION { [1..k -> { <<119, 101, 98, 115, 105, 116, 101>>, <<108, 111, 103, 111, 85, 82, 73>>, <<115, 117, 112, 112, 111, 114, 116>> }] : k \in 0..MaxFields }

\* characters of one, three and four bytes in UTF-8 (a, the euro sign, an emoji)
ContentAlphabet == {97, 8364, 128512}

RECURSIVE ContentBodies(_)
ContentBodies(n) ==
  IF n = 0 THEN {<<>>}
  ELSE ContentBodies(n - 1) \cup
       { Append(b, c) : b \in ContentBodies(n - 1), c \in ContentAlphabet }

\* contents: string literals, and the same characters without the quotes
ContentInputs ==
  { <<34>> \o b \o <<34>> : b \in ContentBodies(MaxContentLen) }
    \cup ContentBodies(MaxContentLen)

\* the file at the path when a reader starts
FileInputs == {Missing} \cup { FileOf(c) : c \in ContentInputs }

\* the path read
FilePathInputs == {<<47, 119, 47, 116, 46, 106, 115, 111, 110>>}

\* maxSize: left out, or a number of bytes
MaxSizeInputs == {[t |-> "undefined", n |-> 0]} \cup { [t |-> "number", n |-> k] : k \in {3, 4} }

\* ESC, "[", "3", ";", "m", BEL, DEL and the C1 control character CSI
TextAlphabet == {27, 91, 51, 59, 109, 7, 127, 155}

TextInputs == StringsUpTo(TextAlphabet, MaxTextLen)

\* String(array): the elements' renderings joined by ","
ArrayToString(elements) == JoinWith(elements, <<44>>)

\* values handed to sanitizeForTerminal: strings, the non-strings, and arrays
\* of one string, which String() renders as that string
SanitizeInputs ==
  { Str(s) : s \in TextInputs } \cup NonStrings
    \cup { [t |-> "array", v |-> ArrayToString(<<s>>)] : s \in TextInputs }

\* a source text of the given characters followed by pad spaces
Source(units, pad) == [t |-> "string", v |-> units, pad |-> pad]

SpdxInputs == { <<>>, <<47, 47, 32, 83, 80, 68, 88, 45, 76, 105, 99, 101, 110, 115, 101, 45, 73, 100, 101, 110, 116, 105, 102, 105, 101, 114, 58, 32, 77, 73, 84, 10>> }

\* pragmas: a range, an exact old version, other white space, no version, no
\* white space before the version, none
PragmaInputs ==
  { <<>>, <<112, 114, 97, 103, 109, 97, 32, 115, 111, 108, 105, 100, 105, 116, 121, 32, 94, 48, 46, 56, 46, 48, 59, 10>>, <<112, 114, 97, 103, 109, 97, 32, 115, 111, 108, 105, 100, 105, 116, 121, 32, 48, 46, 53, 46, 49, 59, 10>>,
    <<112, 114, 97, 103, 109, 97, 9, 32, 115, 111, 108, 105, 100, 105, 116, 121, 10, 62, 61, 48, 46, 54, 46, 48, 32, 59>>, <<112, 114, 97, 103, 109, 97, 32, 115, 111, 108, 105, 100, 105, 116, 121, 59, 10>>, <<112, 114, 97, 103, 109, 97, 32, 115, 111, 108, 105, 100, 105, 116, 121, 32, 59, 10>> }

\* declarations of Expected in every form, with a base contract, of a longer
\* name and of another name
DeclarationInputs ==
  { <<>>, <<99, 111, 110, 116, 114, 97, 99, 116, 32, 69, 120, 112, 101, 99, 116, 101, 100, 32, 123>>, <<99, 111, 110, 116, 114, 97, 99, 116, 32, 69, 120, 112, 101, 99, 116, 101, 100, 123>>, <<99, 111, 110, 116, 114, 97, 99, 116, 10, 69, 120, 112, 101, 99, 116, 101, 100, 10, 123>>,
    <<105, 110, 116, 101, 114, 102, 97, 99, 101, 32, 69, 120, 112, 101, 99, 116, 101, 100, 32, 123>>, <<108, 105, 98, 114, 97, 114, 121, 32, 69, 120, 112, 101, 99, 116, 101, 100, 32, 123>>, <<97, 98, 115, 116, 114, 97, 99, 116, 32, 99, 111, 110, 116, 114, 97, 99, 116, 32, 69, 120, 112, 101, 99, 116, 101, 100, 32, 123>>,
    <<99, 111, 110, 116, 114, 97, 99, 116, 32, 69, 120, 112, 101, 99, 116, 101, 100, 32, 105, 115, 32, 66, 97, 115, 101, 32, 123>>, <<99, 111, 110, 116, 114, 97, 99, 116, 32, 69, 120, 112, 101, 99, 116, 101, 100, 86, 50, 32, 123>>, <<99, 111, 110, 116, 114, 97, 99, 116, 32, 79, 116, 104, 101, 114, 32, 123>> }

\* bodies with and without the patterns that are warned about
BodyInputs ==
  { <<125>>, <<32, 115, 101, 108, 102, 100, 101, 115, 116, 114, 117, 99, 116, 32, 40, 97, 41, 59, 32, 125>>, <<32, 114, 101, 113, 117, 105, 114, 101, 40, 116, 120, 46, 111, 114, 105, 103, 105, 110, 32, 61, 61, 32, 111, 41, 59, 32, 125>>,
    <<32, 97, 115, 115, 101, 109, 98, 108, 121, 32, 123, 32, 125, 32, 97, 46, 99, 97, 108, 108, 40, 98, 41, 59, 32, 125>>, <<32, 101, 99, 114, 101, 99, 111, 118, 101, 114, 40, 104, 41, 59, 32, 120, 46, 116, 114, 97, 110, 115, 102, 101, 114, 40, 49, 41, 59, 32, 125>> }

\* the calls of validateSolidityFile: every combination of the pieces under
\* the name Expected; one source under other names; blank, over-long and
\* non-string contents
SolidityInputs ==
  { [content |-> Source(spdx \o pragma \o declaration \o body, 0),
     contractName |-> Str(<<69, 120, 112, 101, 99, 116, 101, 100>>)] :
      spdx \in SpdxInputs, pragma \in PragmaInputs,
      declaration \in DeclarationInputs, body \in BodyInputs }
  \cup { [content |-> Source(<<112, 114, 97, 103, 109, 97, 32, 115, 111, 108, 105, 100, 105, 116, 121, 32, 94, 48, 46, 56, 46, 48, 59, 10, 99, 111, 110, 116, 114, 97, 99, 116, 32, 69, 120, 112, 101, 99, 116, 101, 100, 32, 123, 125>>, 0),
          contractName |-> name] :
           name \in { Str(<<79, 116, 104, 101, 114>>), Str(<<69, 120, 112>>), Str(<<69, 46, 112, 101, 99, 116, 101, 100>>), Str(<<69, 120, 112, 101, 99, 116, 101, 100, 40>>),
                      Str(<<>>), Absent, [t |-> "null", v |-> <<110, 117, 108, 108>>] } }
  \cup { [content |-> Source(<<99, 111, 110, 116, 114, 97, 99, 116, 32, 69, 120, 112, 101, 99, 116, 101, 100, 32, 123, 125>>, 0), contractName |-> Str(<<69, 120, 112, 101, 99, 116, 101, 100, 40>>)] }
  \cup UNION { { [content |-> Source(units, pad), contractName |-> Str(<<69, 120, 112, 101, 99, 116, 101, 100>>)] :
                   pad \in { 0, 1, MAX_SOLIDITY_FILE_SIZE - Len(units),
                             MAX_SOLIDITY_FILE_SIZE - Len(units) + 1 } } :
                 units \in { <<>>, <<32, 10, 9>>, <<112, 114, 97, 103, 109, 97, 32, 115, 111, 108, 105, 100, 105, 116, 121, 32, 94, 48, 46, 56, 46, 48, 59, 10, 99, 111, 110, 116, 114, 97, 99, 116, 32, 69, 120, 112, 101, 99, 116, 101, 100, 32, 123, 125>>,
                             <<99, 111, 110, 116, 114, 97, 99, 116, 32, 69, 120, 112, 101, 99, 116, 101, 100, 32, 123, 125>> } }
  \cup { [content |-> [t |-> c.t, v |-> c.v, pad |-> 0], contractName |-> Str(<<69, 120, 112, 101, 99, 116, 101, 100>>)] :
           c \in NonStrings }

(* ---------------------------------------------------------------------- *)
(* The machine: the caller makes one call at a time, takes its result and  *)
(* is ready for the next call; Object.prototype lives across the calls     *)
(* ---------------------------------------------------------------------- *)
\* Object.prototype as the runtime creates it
BuiltinPrototype == {"constructor", "toString", "hasOwnProperty"}

\* the pattern objects the constants module exports and the validators test
SharedPatterns ==
  { "ADDRESS_PATTERN", "URL_HTTPS_PATTERN", "SAFE_CONTRACT_NAME_PATTERN",
    "ABI_FUNCTION_NAME_PATTERN" }
  \cup { BLOCKED_IP_PATTERNS(<<>>)[i].pattern : i \in 1..10 }
  \cup DANGEROUS_SOLIDITY_PATTERN_NAMES

Init ==
  /\ op = "idle"
  /\ arg = [none |-> TRUE]
  /\ res = [none |-> TRUE]
  /\ thrown = ""
  /\ executed = <<>>
  /\ objectPrototype = BuiltinPrototype
  /\ lastIndex = [pattern \in SharedPatterns |-> 0]
  /\ file = Missing
  /\ pc = "idle"
  /\ local = NothingHeld
  /\ errorCount = 0
  /\ warningCount = 0
  /\ infoCount = 0
  /\ env = [LOG_FORMAT |-> "", DEBUG |-> ""]
  /\ calls = [error |-> 0, warn |-> 0, info |-> 0]

CallValidateSafeFilename ==
  \E filename \in NameInputs :
    /\ op = "idle"
    /\ op' = "validateSafeFilename"
    /\ arg' = [filename |-> filename]
    /\ res' = validateSafeFilename(filename)
    /\ thrown' = ""
    /\ executed' = <<>>
    /\ UNCHANGED <<loggerVars, objectPrototype, lastIndex, file, pc, local>>

CallValidateContractName ==
  \E contractName \in NameInputs :
    /\ op = "idle"
    /\ op' = "validateContractName"
    /\ arg' = [contractName |-> contractName]
    /\ res' = validateContractName(contractName)
    /\ thrown' = ""
    /\ executed' = <<>>
    /\ lastIndex' = AfterTests(lastIndex, validateContractName_tests(contractName))
    /\ UNCHANGED <<loggerVars, objectPrototype, file, pc, local>>

CallSafePathJoin ==
  \E baseDir \in BaseDirInputs, parts \in PartsInputs :
    LET outcome == safePathJoin(baseDir, parts)
    IN /\ op = "idle"
       /\ op' = "safePathJoin"
       /\ arg' = [baseDir |-> baseDir, parts |-> parts]
       /\ res' = outcome.value
       /\ thrown' = outcome.thrown
       /\ executed' = <<>>
       /\ UNCHANGED <<loggerVars, objectPrototype, lastIndex, file, pc, local>>

CallValidateEIP55Checksum ==
  \E address \in AddressInputs, context \in ContextInputs :
    LET outcome == validateEIP55Checksum(address, context)
    IN /\ op = "idle"
       /\ op' = "validateEIP55Checksum"
       /\ arg' = [address |-> address, context |-> context]
       /\ res' = outcome.value
       /\ thrown' = ""
       /\ executed' = outcome.steps
       /\ lastIndex' = AfterTests(lastIndex, isValidAddressFormat_tests(address))
       /\ UNCHANGED <<loggerVars, objectPrototype, file, pc, local>>

CallValidateAddressDirectory ==
  \E dirName \in AddressInputs, parentPath \in ParentPathInputs :
    LET outcome == validateAddressDirectory(dirName, parentPath)
    IN /\ op = "idle"
       /\ op' = "validateAddressDirectory"
       /\ arg' = [dirName |-> dirName, parentPath |-> parentPath]
       /\ res' = outcome.value
       /\ thrown' = outcome.thrown
       /\ executed' = <<>>
       /\ lastIndex' = AfterTests(lastIndex, isValidAddressFormat_tests(dirName))
       /\ UNCHANGED <<loggerVars, objectPrototype, file, pc, local>>

CallValidateTokenAddress ==
  \E address \in AddressInputs, dirName \in AddressInputs, context \in ContextInputs :
    LET outcome == validateTokenAddress(address, dirName, context)
    IN /\ op = "idle"
       /\ op' = "validateTokenAddress"
       /\ arg' = [address |-> address, dirName |-> dirName, context |-> context]
       /\ res' = outcome.value
       /\ thrown' = ""
       /\ executed' = outcome.steps
       /\ lastIndex' = AfterTests(lastIndex, validateTokenAddress_tests(address, dirName))
       /\ UNCHANGED <<loggerVars, objectPrototype, file, pc, local>>

CallSafeParse ==
  \E text \in JsonTexts :
    LET outcome == safeParse(text, objectPrototype)
    IN /\ op = "idle"
       /\ op' = "safeParse"
       /\ arg' = [text |-> text]
       /\ res' = outcome.value
       /\ thrown' = outcome.thrown
       /\ executed' = <<>>
       /\ objectPrototype' = outcome.base
       /\ UNCHANGED <<loggerVars, lastIndex, file, pc, local>>

CallValidateURL ==
  \E input \in UrlInputs, fieldName \in FieldNameInputs :
    /\ op = "idle"
    /\ op' = "validateURL"
    /\ arg' = [urlString |-> input.urlString, fieldName |-> fieldName,
               written |-> input.written, shape |-> input.shape]
    /\ res' = validateURL(input.urlString, fieldName)
    /\ thrown' = ""
    /\ executed' = <<>>
    /\ lastIndex' = AfterTests(lastIndex, validateURL_tests(input.urlString))
    /\ UNCHANGED <<loggerVars, objectPrototype, file, pc, local>>

CallValidateABI ==
  \E input \in AbiInputs :
    /\ op = "idle"
    /\ op' = "validateABI"
    /\ arg' = input
    /\ res' = validateABI(input.abi, input.contractName)
    /\ thrown' = ""
    /\ executed' = <<>>
    /\ lastIndex' = AfterTests(lastIndex, validateABI_tests(input.abi))
    /\ UNCHANGED <<loggerVars, objectPrototype, file, pc, local>>

CallValidateURLFormat ==
  \E urlString \in FormatInputs :
    /\ op = "idle"
    /\ op' = "validateURLFormat"
    /\ arg' = [urlString |-> urlString]
    /\ res' = validateURLFormat(urlString)
    /\ thrown' = ""
    /\ executed' = <<>>
    /\ lastIndex' = AfterTests(lastIndex, validateURLFormat_tests(urlString))
    /\ UNCHANGED <<loggerVars, objectPrototype, file, pc, local>>

\* hostname.toLowerCase() of a value that is no string throws a TypeError
CallIsBlockedHost ==
  \E input \in HostnameInputs :
    LET outcome == IF input.hostname.t # "string"
                     THEN Throw("TypeError",
                                <<Lit("hostname.toLowerCase is not a function")>>)
                   ELSE Return(isBlockedHost(input.hostname.v))
    IN /\ op = "idle"
       /\ op' = "isBlockedHost"
       /\ arg' = input
       /\ res' = outcome.value
       /\ thrown' = outcome.thrown
       /\ executed' = <<>>
       /\ lastIndex' = IF input.hostname.t # "string" THEN lastIndex
                       ELSE AfterTests(lastIndex, isBlockedHost_tests(input.hostname.v))
       /\ UNCHANGED <<loggerVars, objectPrototype, file, pc, local>>

CallValidateURLs ==
  \E obj \in ObjInputs, urlFields \in UrlFieldsInputs :
    LET outcome == validateURLs(obj, urlFields)
    IN /\ op = "idle"
       /\ op' = "validateURLs"
       /\ arg' = [obj |-> obj, urlFields |-> urlFields]
       /\ res' = outcome.value
       /\ thrown' = ""
       /\ executed' = outcome.steps
       /\ lastIndex' = AfterTests(lastIndex, validateURLs_tests(obj, outcome.steps))
       /\ UNCHANGED <<loggerVars, objectPrototype, file, pc, local>>

CallSanitizeForTerminal ==
  \E str \in SanitizeInputs :
    /\ op = "idle"
    /\ op' = "sanitizeForTerminal"
    /\ arg' = [str |-> str]
    /\ res' = sanitizeForTerminal(str)
    /\ thrown' = ""
    /\ executed' = <<>>
    /\ UNCHANGED <<loggerVars, objectPrototype, lastIndex, file, pc, local>>

CallValidateSolidityFile ==
  \E input \in SolidityInputs :
    LET outcome == validateSolidityFile(input.content, input.contractName)
    IN /\ op = "idle"
       /\ op' = "validateSolidityFile"
       /\ arg' = input
       /\ res' = outcome.value
       /\ thrown' = outcome.thrown
       /\ executed' = <<>>
       /\ lastIndex' = IF outcome.thrown = "" /\ outcome.value.valid
                         THEN checkDangerousPatterns_leaves(input.content.v)
                       ELSE lastIndex
       /\ UNCHANGED <<loggerVars, objectPrototype, file, pc, local>>

\* the caller takes the result of the call and is ready for the next one
TakeResult ==
  /\ op # "idle"
  /\ pc \in {"idle", "done"}
  /\ op' = "idle"
  /\ arg' = [none |-> TRUE]
  /\ res' = [none |-> TRUE]
  /\ thrown' = ""
  /\ executed' = <<>>
  /\ pc' = "idle"
  /\ local' = NothingHeld
  /\ UNCHANGED <<loggerVars, objectPrototype, lastIndex, file>>

Next ==
  \/ CallValidateSafeFilename
  \/ CallValidateContractName
  \/ CallSafePathJoin
  \/ CallValidateEIP55Checksum
  \/ CallValidateAddressDirectory
  \/ CallValidateTokenAddress
  \/ CallSafeParse
  \/ CallValidateURL
  \/ CallValidateABI
  \/ TakeResult
  \/ CallValidateURLFormat
  \/ CallIsBlockedHost
  \/ CallValidateURLs
  \/ CallSanitizeForTerminal
  \/ CallValidateSolidityFile

Spec == Init /\ [][Next]_vars

(* ---------------------------------------------------------------------- *)
(* The reader: one safeReadJSON at a time, a system call per step, beside  *)
(* the processes that write and remove the file it reads.                  *)
(* ---------------------------------------------------------------------- *)
ReadInit ==
  /\ op = "idle"
  /\ arg = [none |-> TRUE]
  /\ res = [none |-> TRUE]
  /\ thrown = ""
  /\ executed = <<>>
  /\ objectPrototype = BuiltinPrototype
  /\ lastIndex = [pattern \in SharedPatterns |-> 0]
  /\ file \in FileInputs
  /\ pc = "idle"
  /\ local = NothingHeld
  /\ errorCount = 0
  /\ warningCount = 0
  /\ infoCount = 0
  /\ env = [LOG_FORMAT |-> "", DEBUG |-> ""]
  /\ calls = [error |-> 0, warn |-> 0, info |-> 0]

\* how a step of the reader ends: it goes on, or the call returns or throws
Proceed(step, outcome, held) ==
  /\ pc' = step
  /\ local' = held
  /\ res' = IF step = "done" THEN outcome.value ELSE res
  /\ thrown' = IF step = "done" THEN outcome.thrown ELSE thrown

CallSafeReadJSON ==
  \E filePath \in FilePathInputs, maxSize \in MaxSizeInputs :
    /\ op = "idle"
    /\ op' = "safeReadJSON"
    /\ arg' = [filePath |-> filePath, maxSize |-> maxSize]
    /\ pc' = "existsSync"
    /\ executed' = <<>>
    /\ UNCHANGED <<loggerVars, res, thrown, objectPrototype, lastIndex, file, local>>

ExistsSync ==
  LET step == existsSync_step(file, arg.filePath)
  IN /\ pc = "existsSync"
     /\ executed' = Append(executed, "existsSync")
     /\ Proceed(step.pc, step.outcome, local)
     /\ UNCHANGED <<loggerVars, op, arg, objectPrototype, lastIndex, file>>

StatSync ==
  LET step == statSync_step(file, arg.filePath, MaxSizeOf(arg.maxSize))
  IN /\ pc = "statSync"
     /\ executed' = Append(executed, "statSync")
     /\ Proceed(step.pc, step.outcome, [local EXCEPT !.size = step.size])
     /\ UNCHANGED <<loggerVars, op, arg, objectPrototype, lastIndex, file>>

ReadFileSync ==
  LET step == readFileSync_step(file, arg.filePath)
  IN /\ pc = "readFileSync"
     /\ executed' = Append(executed, "readFileSync")
     /\ Proceed(step.pc, step.outcome,
                [local EXCEPT !.read = step.read, !.content = step.content])
     /\ UNCHANGED <<loggerVars, op, arg, objectPrototype, lastIndex, file>>

LengthCheck ==
  LET step == lengthCheck_step(local.content, MaxSizeOf(arg.maxSize))
  IN /\ pc = "lengthCheck"
     /\ executed' = Append(executed, "lengthCheck")
     /\ Proceed(step.pc, step.outcome, local)
     /\ UNCHANGED <<loggerVars, op, arg, objectPrototype, lastIndex, file>>

SafeParseContent ==
  LET step == safeParse_step(local.content, arg.filePath, objectPrototype)
  IN /\ pc = "safeParse"
     /\ executed' = Append(executed, "safeParse")
     /\ Proceed("done", step.outcome, local)
     /\ objectPrototype' = step.base
     /\ UNCHANGED <<loggerVars, lastIndex, op, arg, file>>

\* another process replaces the file or makes it grow before the reader has read it
OtherProcessWrites ==
  \E c \in ContentInputs :
    /\ pc \in {"existsSync", "statSync", "readFileSync"}
    /\ file # FileOf(c)
    /\ file' = FileOf(c)
    /\ UNCHANGED <<loggerVars, op, arg, res, thrown, executed, objectPrototype, lastIndex, pc, local>>

\* another process removes the file before the reader has read it
OtherProcessRemoves ==
  /\ pc \in {"existsSync", "statSync", "readFileSync"}
  /\ file.exists
  /\ file' = Missing
  /\ UNCHANGED <<loggerVars, op, arg, res, thrown, executed, objectPrototype, lastIndex, pc, local>>

ReadNext ==
  \/ CallSafeReadJSON
  \/ ExistsSync
  \/ StatSync
  \/ ReadFileSync
  \/ LengthCheck
  \/ SafeParseContent
  \/ OtherProcessWrites
  \/ OtherProcessRemoves
  \/ TakeResult

ReadSpec == ReadInit /\ [][ReadNext]_vars

(* ---------------------------------------------------------------------- *)
(* The logger: the process starts with LOG_FORMAT and DEBUG set or not,    *)
(* and the caller makes one call of the logger after another.              *)
(* ---------------------------------------------------------------------- *)
EnvInputs == [LOG_FORMAT : {"", "human", "json"}, DEBUG : {"", "1"}]

MessageInputs == { Str(<<98, 97, 100, 32, 116, 111, 107, 101, 110>>), Str(<<27, 91, 51, 49, 109, 114, 101, 100, 7>>), [t |-> "number", v |-> <<49, 50, 51>>] }

\* no metadata, null, {}, { file: 'a.json' } and an object that holds itself
MetadataInputs ==
  { [t |-> "undefined", keys |-> 0, cyclic |-> FALSE],
    [t |-> "null", keys |-> 0, cyclic |-> FALSE],
    [t |-> "object", keys |-> 0, cyclic |-> FALSE],
    [t |-> "object", keys |-> 1, cyclic |-> FALSE],
    [t |-> "object", keys |-> 1, cyclic |-> TRUE] }

NoCalls == [error |-> 0, warn |-> 0, info |-> 0]

LoggerInit ==
  /\ op = "idle"
  /\ arg = [none |-> TRUE]
  /\ res = [none |-> TRUE]
  /\ thrown = ""
  /\ executed = <<>>
  /\ objectPrototype = BuiltinPrototype
  /\ lastIndex = [pattern \in SharedPatterns |-> 0]
  /\ file = Missing
  /\ pc = "idle"
  /\ local = NothingHeld
  /\ errorCount = 0
  /\ warningCount = 0
  /\ infoCount = 0
  /\ env \in EnvInputs
  /\ calls = NoCalls

\* a call of the logger: what it returns or throws, the lines it printed, and
\* what no function of the logger writes
LoggerCall(name, input, outcome, value) ==
  /\ op = "idle"
  /\ op' = name
  /\ arg' = input
  /\ res' = IF outcome.thrown = "" THEN value ELSE [t |-> outcome.thrown]
  /\ thrown' = outcome.thrown
  /\ executed' = outcome.lines
  /\ UNCHANGED <<objectPrototype, lastIndex, file, pc, local, env>>

CallError ==
  \E message \in MessageInputs, metadata \in MetadataInputs :
    LET outcome == error(message, metadata)
    IN /\ calls.error < MaxCalls
       /\ LoggerCall("error", [message |-> message, metadata |-> metadata], outcome, [t |-> "undefined"])
       /\ errorCount' = outcome.errorCount
       /\ calls' = [calls EXCEPT !.error = @ + 1]
       /\ UNCHANGED <<warningCount, infoCount>>

CallWarn ==
  \E message \in MessageInputs, metadata \in MetadataInputs :
    LET outcome == warn(message, metadata)
    IN /\ calls.warn < MaxCalls
       /\ LoggerCall("warn", [message |-> message, metadata |-> metadata], outcome, [t |-> "undefined"])
       /\ warningCount' = outcome.warningCount
       /\ calls' = [calls EXCEPT !.warn = @ + 1]
       /\ UNCHANGED <<errorCount, infoCount>>

CallInfo ==
  \E message \in MessageInputs, metadata \in MetadataInputs :
    LET outcome == info(message, metadata)
    IN /\ calls.info < MaxCalls
       /\ LoggerCall("info", [message |-> message, metadata |-> metadata], outcome, [t |-> "undefined"])
       /\ infoCount' = outcome.infoCount
       /\ calls' = [calls EXCEPT !.info = @ + 1]
       /\ UNCHANGED <<errorCount, warningCount>>

CallSuccess ==
  \E message \in MessageInputs, metadata \in MetadataInputs :
    /\ LoggerCall("success", [message |-> message, metadata |-> metadata],
                  success(message, metadata), [t |-> "undefined"])
    /\ UNCHANGED <<errorCount, warningCount, infoCount, calls>>

CallDebug ==
  \E message \in MessageInputs, metadata \in MetadataInputs :
    /\ LoggerCall("debug", [message |-> message, metadata |-> metadata],
                  debug(message, metadata), [t |-> "undefined"])
    /\ UNCHANGED <<errorCount, warningCount, infoCount, calls>>

CallSection ==
  \E title \in MessageInputs :
    /\ LoggerCall("section", [title |-> title], section(title), [t |-> "undefined"])
    /\ UNCHANGED <<errorCount, warningCount, infoCount, calls>>

CallSummary ==
  /\ LoggerCall("summary", [none |-> TRUE], summary, [t |-> "undefined"])
  /\ UNCHANGED <<errorCount, warningCount, infoCount, calls>>

CallGetCounters ==
  /\ LoggerCall("getCounters", [none |-> TRUE], [thrown |-> "", lines |-> <<>>], getCounters)
  /\ UNCHANGED <<errorCount, warningCount, infoCount, calls>>

CallResetCounters ==
  /\ LoggerCall("resetCounters", [none |-> TRUE], [thrown |-> "", lines |-> <<>>],
                [t |-> "undefined"])
  /\ errorCount' = 0
  /\ warningCount' = 0
  /\ infoCount' = 0
  /\ calls' = NoCalls

LoggerNext ==
  \/ CallError
  \/ CallWarn
  \/ CallInfo
  \/ CallSuccess
  \/ CallDebug
  \/ CallSection
  \/ CallSummary
  \/ CallGetCounters
  \/ CallResetCounters
  \/ TakeResult

LoggerSpec == LoggerInit /\ [][LoggerNext]_vars

(* ---------------------------------------------------------------------- *)
(* Properties                                                              *)
(* ---------------------------------------------------------------------- *)
\* the characters and sequences a path segment must never contain
HasTraversal(s) == includes(s, <<46, 46>>) \/ includes(s, <<47>>) \/ includes(s, <<92>>)
HasNul(s) == includes(s, <<0>>)
HasC0OrDel(s) == \E i \in 1..Len(s) : s[i] \in (0..31) \cup {127}
HasC1(s) == \E i \in 1..Len(s) : s[i] \in 128..159

\* q is p or lies beneath p, both absolute and resolved: p's segments begin q's
IsWithin(q, p) ==
  LET ps == Segments(p)
      qs == Segments(q)
  IN Len(qs) >= Len(ps) /\ SubSeq(qs, 1, Len(ps)) = ps

IsStrictlyBeneath(q, p) == IsWithin(q, p) /\ Len(Segments(q)) > Len(Segments(p))

C9_AcceptedFilenameIsClean ==
  (op = "validateSafeFilename" /\ res.valid) =>
    /\ arg.filename.t = "string"
    /\ ~HasTraversal(arg.filename.v)
    /\ ~HasNul(arg.filename.v)
    /\ ~HasC0OrDel(arg.filename.v)
    /\ ~HasC1(arg.filename.v)

\* C10: every name validateContractName accepts is a non-empty string that
\* starts with an uppercase letter and is purely alphanumeric, and
\* validateSafeFilename accepts it too; the empty string and non-strings are
\* rejected.
C10_ContractNameImpliesSafeFilename ==
  op = "validateContractName" =>
    /\ res.valid =>
         /\ arg.contractName.t = "string"
         /\ Len(arg.contractName.v) >= 1
         /\ IsUpper(arg.contractName.v[1])
         /\ \A i \in 1..Len(arg.contractName.v) : IsAlnum(arg.contractName.v[i])
         /\ validateSafeFilename(arg.contractName).valid
    /\ (arg.contractName.t # "string" \/ arg.contractName.v = <<>>) => ~res.valid

\* C10 witness: an accepted contract name of two characters
C10_Witness ==
  /\ op = "validateContractName"
  /\ res.valid
  /\ Len(arg.contractName.v) = 2

\* a string of exactly 42 characters: 0x and 40 hexadecimal digits
IsAddressShaped(x) ==
  /\ x.t = "string"
  /\ Len(x.v) = 42
  /\ SubSeq(x.v, 1, 2) = <<48, 120>>
  /\ \A i \in 3..Len(x.v) : IsHexDigit(x.v[i])

\* the first fixed text of an error message
MessageHead(result) == result.error[1].lit

Occurs(name, steps) == \E i \in 1..Len(steps) : steps[i] = name

\* C5: validateEIP55Checksum returns valid:true iff the address is 0x + 40 hex
\* digits, equals its own EIP-55 rendering and is not the zero address; the zero
\* address gets the zero-address message; an input failing the format check
\* gets the format message and no checksum is computed for it.
C5_ChecksumValidIffCanonical ==
  op = "validateEIP55Checksum" =>
    /\ res.valid <=> ( /\ IsAddressShaped(arg.address)
                       /\ arg.address.v = getChecksumAddress(arg.address.v)
                       /\ arg.address.v # ZeroAddress )
    /\ (arg.address.t = "string" /\ arg.address.v = ZeroAddress) =>
         (~res.valid /\ MessageHead(res) = "Zero address not allowed for ")
    /\ ~IsAddressShaped(arg.address) =>
         /\ ~res.valid
         /\ MessageHead(res) = "Invalid address format for "
         /\ ~Occurs("getAddress", executed)

\* C5 witness: a mixed-case address accepted after its checksum was computed
C5_Witness ==
  /\ op = "validateEIP55Checksum"
  /\ res.valid
  /\ IsMixedCase(arg.address.v)
  /\ Occurs("getAddress", executed)

\* C6: validateAddressDirectory returns valid:true iff dirName has the address
\* format, contains no "..", "/", "\", and parentPath/dirName resolves strictly
\* beneath the resolved parentPath, for every parentPath (a string), the
\* file-system root included.
C6_DirectoryValidIffStrictDescendant ==
  (op = "validateAddressDirectory" /\ arg.parentPath.t = "string") =>
    /\ thrown = ""
    /\ res.valid <=>
         ( /\ IsAddressShaped(arg.dirName)
           /\ ~HasTraversal(arg.dirName.v)
           /\ IsStrictlyBeneath(
                path_resolve(path_join(<<arg.parentPath.v, arg.dirName.v>>)),
                path_resolve(arg.parentPath.v)) )

\* C7: validateTokenAddress runs directory-safety, checksum, directory-match in
\* that order and returns the result of the first that fails; the checks after
\* the failing one are never executed.
C7_TokenAddressOrder ==
  op = "validateTokenAddress" =>
    LET dir == validateAddressDirectory(arg.dirName, ModuleParent).value
        sum == validateEIP55Checksum(arg.address, arg.context).value
        match == validateAddressMatchesDirectory(arg.address, arg.dirName)
    IN /\ executed[1] = "validateAddressDirectory"
       /\ ~dir.valid =>
            /\ res = dir
            /\ ~Occurs("validateEIP55Checksum", executed)
            /\ ~Occurs("getAddress", executed)
            /\ ~Occurs("validateAddressMatchesDirectory", executed)
       /\ (dir.valid /\ ~sum.valid) =>
            /\ res = sum
            /\ executed[2] = "validateEIP55Checksum"
            /\ ~Occurs("validateAddressMatchesDirectory", executed)
       /\ (dir.valid /\ sum.valid) =>
            /\ executed[2] = "validateEIP55Checksum"
            /\ executed[Len(executed)] = "validateAddressMatchesDirectory"
            /\ res.valid <=> match.valid
            /\ ~match.valid => res = match

\* C7 witness: an unsafe directory name rejected while the address itself is a
\* valid checksummed address
C7_Witness ==
  /\ op = "validateTokenAddress"
  /\ arg.dirName.v = <<46, 46, 47, 46, 46, 47, 101, 116, 99>>
  /\ validateEIP55Checksum(arg.address, arg.context).value.valid
  /\ ~res.valid
  /\ executed = <<"validateAddressDirectory">>

RECURSIVE HasReservedKey(_)
\* some object of the tree, at any depth, has a member keyed __proto__,
\* constructor or prototype
HasReservedKey(node) ==
  \E i \in 1..Len(node.kids) :
    \/ (node.t = "object" /\ node.kids[i][1] \in ReservedKeys)
    \/ HasReservedKey(node.kids[i][2])

\* C3: for every well-formed JSON text no object of the tree safeParse returns,
\* at any depth and also inside arrays, has an own key __proto__, constructor
\* or prototype.
C3_NoReservedKeyAtAnyDepth ==
  (op = "safeParse" /\ arg.text.wellFormed) =>
    /\ thrown = ""
    /\ ~HasReservedKey(res)

\* C3 witness: the text holds an array whose element is an object with a
\* reserved key, and it was parsed
C3_Witness ==
  /\ op = "safeParse"
  /\ thrown = ""
  /\ arg.text.wellFormed
  /\ arg.text.tree.t = "array"
  /\ Len(arg.text.tree.kids) = 1
  /\ arg.text.tree.kids[1][2].t = "object"
  /\ HasReservedKey(arg.text.tree.kids[1][2])

\* C4: after any sequence of safeParse calls, on well-formed or malformed
\* texts with reserved keys at any level, Object.prototype is what it was: a
\* fresh empty object shows no property of a payload.
C4_BaseObjectUnchanged == objectPrototype = BuiltinPrototype

\* C4 witness: the payload {"__proto__": {"polluted": ...}} was parsed
C4_Witness ==
  /\ op = "safeParse"
  /\ thrown = ""
  /\ arg.text.wellFormed
  /\ arg.text.tree = [t |-> "object",
                      kids |-> << <<"__proto__",
                                    [t |-> "object", kids |-> << <<"polluted", Scalar>> >>]>> >>]
  /\ "polluted" \notin objectPrototype

(* ---------------------------------------------------------------------- *)
(* Blocked hosts                                                           *)
(* ---------------------------------------------------------------------- *)
\* the host meant is a blocked literal host or lies in a blocked range
IsBlockedWritten(h) ==
  \/ /\ h.kind = "name"
     /\ h.name \in { <<108, 111, 99, 97, 108, 104, 111, 115, 116>>, <<109, 101, 116, 97, 100, 97, 116, 97, 46, 103, 111, 111, 103, 108, 101, 46, 105, 110, 116, 101, 114, 110, 97, 108>>, <<109, 101, 116, 97, 100, 97, 116, 97>> }
  \/ /\ h.kind = "ipv4"
     /\ \/ h.octets[1] \in {0, 10, 127}
        \/ h.octets[1] = 172 /\ h.octets[2] \in 16..31
        \/ h.octets[1] = 192 /\ h.octets[2] = 168
        \/ h.octets[1] = 169 /\ h.octets[2] = 254
  \/ /\ h.kind = "ipv6"
     /\ \/ h.pieces = <<0, 0, 0, 0, 0, 0, 0, 1>>
        \/ h.pieces[1] = 65152
        \/ h.pieces[1] \in 64512..65023

\* C1: validateURL never returns valid: true for a URL whose host is a blocked
\* literal host or lies in a blocked range, whether the host is written as a
\* name in any letter case, as an IPv4 literal or as a bracketed IPv6 literal.
C1_BlockedHostNeverValid ==
  (op = "validateURL" /\ IsBlockedWritten(arg.written)) => ~res.valid

(* ---------------------------------------------------------------------- *)
(* Reserved ABI parameter names                                            *)
(* ---------------------------------------------------------------------- *)
RECURSIVE ParameterHasReservedName(_)
\* the parameter, or a component of it at any depth, has a reserved name
ParameterHasReservedName(param) ==
  /\ param.t = "object"
  /\ \/ Get(param, "name") \in { Str(<<95, 95, 112, 114, 111, 116, 111, 95, 95>>), Str(<<99, 111, 110, 115, 116, 114, 117, 99, 116, 111, 114>>), Str(<<112, 114, 111, 116, 111, 116, 121, 112, 101>>) }
     \/ /\ Get(param, "type").t = "string"
        /\ startsWith(Get(param, "type").v, <<116, 117, 112, 108, 101>>)
        /\ Get(param, "components").t = "array"
        /\ \E i \in 1..Len(Get(param, "components").items) :
             ParameterHasReservedName(Get(param, "components").items[i])

\* a list of parameters has one with a reserved name
ParametersHaveReservedName(params) ==
  params.t = "array" /\ \E i \in 1..Len(params.items) : ParameterHasReservedName(params.items[i])

\* an item that carries parameters has one with a reserved name: the inputs
\* of a function, constructor, event or error, or the outputs of a function
ItemHasReservedName(item) ==
  /\ item.t = "object"
  /\ \/ /\ Get(item, "type") \in { Str(<<102, 117, 110, 99, 116, 105, 111, 110>>), Str(<<99, 111, 110, 115, 116, 114, 117, 99, 116, 111, 114>>),
                                   Str(<<101, 118, 101, 110, 116>>), Str(<<101, 114, 114, 111, 114>>) }
        /\ ParametersHaveReservedName(Get(item, "inputs"))
     \/ /\ Get(item, "type") = Str(<<102, 117, 110, 99, 116, 105, 111, 110>>)
        /\ ParametersHaveReservedName(Get(item, "outputs"))

\* C8: an ABI accepted by validateABI has no parameter named __proto__,
\* constructor or prototype among the inputs and outputs of its function,
\* constructor, event and error items, tuple components at any depth included.
C8_AcceptedAbiHasNoReservedName ==
  (op = "validateABI" /\ res.valid) =>
    (arg.abi.t = "array" /\ \A i \in 1..Len(arg.abi.items) : ~ItemHasReservedName(arg.abi.items[i]))

(* ---------------------------------------------------------------------- *)
(* URL format                                                              *)
(* ---------------------------------------------------------------------- *)
HasLineBreak(s) == \E i \in 1..Len(s) : s[i] \in {10, 13}
HasWhitespace(s) == \E i \in 1..Len(s) : IsWhitespace(s[i])

\* https:// followed by at least one character, none of them white space
IsHttpsShaped(s) ==
  /\ Len(s) >= 9
  /\ SubSeq(s, 1, 8) = <<104, 116, 116, 112, 115, 58, 47, 47>>
  /\ ~HasWhitespace(SubSeq(s, 9, Len(s)))

\* C11: validateURLFormat returns valid: true exactly for the strings of at
\* most 500 characters without white space, newline or carriage return that
\* are https:// followed by at least one non-white-space character; the checks
\* run in the order type, length, newline/CR, white space, https pattern and
\* the error is that of the first check that fails.
C11_FormatChecksInOrder ==
  op = "validateURLFormat" =>
    LET u == arg.urlString
        isString == u.t = "string"
        fits == Len(u.v) <= 500
    IN /\ res.valid <=> (isString /\ fits /\ ~HasLineBreak(u.v) /\ ~HasWhitespace(u.v)
                         /\ IsHttpsShaped(u.v))
       /\ ~isString => res = Fail(<<Lit("URL must be a string")>>)
       /\ (isString /\ ~fits) => (~res.valid /\ MessageHead(res) = "URL too long: ")
       /\ (isString /\ fits /\ HasLineBreak(u.v)) =>
            res = Fail(<<Lit("URL contains newline characters")>>)
       /\ (isString /\ fits /\ ~HasLineBreak(u.v) /\ HasWhitespace(u.v)) =>
            res = Fail(<<Lit("URL contains whitespace")>>)
       /\ (isString /\ fits /\ ~HasLineBreak(u.v) /\ ~HasWhitespace(u.v)
           /\ ~IsHttpsShaped(u.v)) =>
            res = Fail(<<Lit("URL must start with https:// and be properly formatted")>>)

\* C11 witness: a URL with a space and a newline got the newline error
C11_Witness ==
  /\ op = "validateURLFormat"
  /\ arg.urlString = Str(<<104, 116, 116, 112, 115, 58, 47, 47, 32, 10>>)
  /\ res = Fail(<<Lit("URL contains newline characters")>>)

\* C12: isBlockedHost is true, in any letter case, for every blocked literal
\* host and for every address of the blocked ranges, the whole of fc00::/7
\* included; it is false for example.com and github.com.
C12_BlockedHostsAndRanges ==
  (op = "isBlockedHost" /\ thrown = "") =>
    /\ IsBlockedWritten(arg.written) => res = TRUE
    /\ (arg.written.kind = "name" /\ arg.written.name \in {<<101, 120, 97, 109, 112, 108, 101, 46, 99, 111, 109>>, <<103, 105, 116, 104, 117, 98, 46, 99, 111, 109>>})
         => res = FALSE

(* ---------------------------------------------------------------------- *)
(* Ports                                                                   *)
(* ---------------------------------------------------------------------- *)
\* the characters written after the colon of the port, none when no colon
WrittenPort(shape) == IF shape.port = <<>> THEN <<>> ELSE Tail(shape.port)

IsDecimal(s) == s # <<>> /\ \A i \in 1..Len(s) : s[i] \in 48..57

\* the port written is the number 443
Is443(s) == IsDecimal(s) /\ Len(s) <= 5 /\ NumberIn(s, 10) = 443

\* the URL of the call carries a host that is not blocked, in a string that
\* passes validateURLFormat
IsFormedAndUnblocked ==
  /\ op = "validateURL"
  /\ arg.written.kind # "none"
  /\ validateURLFormat(arg.urlString).valid
  /\ ~IsBlockedWritten(arg.written)

HasPortMessage(result) ==
  ~result.valid /\ Len(result.error) = 3
  /\ result.error[2] = Lit(" uses non-standard HTTPS port: ")

\* C13 as stated: for a URL that passes validateURLFormat and whose host is not
\* blocked, validateURL returns valid: false with the non-standard-port message
\* exactly when the URL carries an explicit port other than 443, and valid:
\* true with no port or with port 443.
C13_PortMessageIffExplicitPortNot443 ==
  IsFormedAndUnblocked =>
    LET port == WrittenPort(arg.shape)
        explicitOther == port # <<>> /\ ~Is443(port)
    IN /\ HasPortMessage(res) <=> explicitOther
       /\ ~explicitOther => res.valid

\* the port written is a port number: decimal and at most 65535
IsPortNumber(s) == IsDecimal(s) /\ Len(s) <= 5 /\ NumberIn(s, 10) <= 65535

\* C13: for a URL that passes validateURLFormat and whose host is not blocked,
\* validateURL returns the non-standard-port message, naming the port, exactly
\* when the explicit port is a port number other than 443; with no port or with
\* port 443 it returns valid: true; an explicit port that is no port number
\* makes the URL unparsable and gets the not-a-valid-URL message instead.
C13_PortMessageIffPortNumberNot443 ==
  IsFormedAndUnblocked =>
    LET port == WrittenPort(arg.shape)
    IN /\ HasPortMessage(res) <=> (IsPortNumber(port) /\ ~Is443(port))
       /\ HasPortMessage(res) => res.error[3] = Val(Decimal(NumberIn(port, 10)))
       /\ (port = <<>> \/ Is443(port)) => res.valid
       /\ (port # <<>> /\ ~IsPortNumber(port)) =>
            (~res.valid /\ res.error[2] = Lit(" is not a valid URL: "))

\* C13 witness: https://example.com:8080/ was rejected for its port
C13_Witness ==
  /\ op = "validateURL"
  /\ arg.urlString = Str(<<104, 116, 116, 112, 115, 58, 47, 47, 101, 120, 97, 109, 112, 108, 101, 46, 99, 111, 109, 58, 56, 48, 56, 48, 47>>)
  /\ HasPortMessage(res)
  /\ res.error[3] = Val(<<56, 48, 56, 48>>)

(* ---------------------------------------------------------------------- *)
(* Many URLs                                                               *)
(* ---------------------------------------------------------------------- *)
\* the i-th of the n smallest members of a set of numbers
NthOf(S, i) == CHOOSE x \in S : Cardinality({ y \in S : y <= x }) = i

\* the members of seq at the positions in S, in their order
Picked(seq, S) == [k \in 1..Cardinality(S) |-> seq[NthOf(S, k)]]

\* C14: validateURLs validates the listed fields in list order, skips every
\* field whose value is undefined or null, validates every other value (empty
\* strings and non-strings too), does not stop at a failure, returns valid:
\* true iff no present field failed, and its errors are the messages of the
\* failing present fields, one each, in list order.
C14_EveryPresentFieldValidated ==
  op = "validateURLs" =>
    LET fields == arg.urlFields
        value(i) == Lookup(arg.obj, fields[i])
        present == { i \in 1..Len(fields) : value(i).t \notin {"undefined", "null"} }
        outcome == [i \in 1..Len(fields) |-> validateURL(value(i), Str(fields[i]))]
        failing == { i \in present : ~outcome[i].valid }
    IN /\ executed = Picked(fields, present)
       /\ res.valid <=> failing = {}
       /\ res.errors = Picked([i \in 1..Len(fields) |-> outcome[i].error], failing)

\* C14 witness: an empty string and a number, both failing, gave two messages
C14_Witness ==
  /\ op = "validateURLs"
  /\ arg.urlFields = <<<<119, 101, 98, 115, 105, 116, 101>>, <<108, 111, 103, 111, 85, 82, 73>>>>
  /\ Lookup(arg.obj, <<119, 101, 98, 115, 105, 116, 101>>) = Str(<<>>)
  /\ Lookup(arg.obj, <<108, 111, 103, 111, 85, 82, 73>>).t = "number"
  /\ ~res.valid
  /\ Len(res.errors) = 2

(* ---------------------------------------------------------------------- *)
(* Checksum errors                                                         *)
(* ---------------------------------------------------------------------- *)
\* the call is validateEIP55Checksum on a non-zero address of the right format
\* that differs from its EIP-55 rendering
IsNonCanonicalCall ==
  /\ op = "validateEIP55Checksum"
  /\ IsAddressShaped(arg.address)
  /\ arg.address.v # ZeroAddress
  /\ arg.address.v # getChecksumAddress(arg.address.v)

\* some interpolated part of the error is the text
Names(result, text) == \E i \in 1..Len(result.error) : result.error[i] = Val(text)

\* C15 as stated: every valid-format, non-zero address that differs from its
\* EIP-55 rendering, in lower case, upper case or mixed case, is rejected with
\* an error that names the expected checksummed form.
C15_MismatchNamesExpectedForm ==
  IsNonCanonicalCall =>
    (~res.valid /\ Names(res, getChecksumAddress(arg.address.v)))

\* C15: every such address is rejected and never accepted in corrected form;
\* written in one letter case its error names the expected checksummed form;
\* written in mixed case its error is "Invalid address for <context>: " and
\* the library's bad-checksum message, which holds the input and not the
\* expected form.
C15_MismatchRejected ==
  IsNonCanonicalCall =>
    LET expected == getChecksumAddress(arg.address.v)
    IN /\ ~res.valid
       /\ ~IsMixedCase(arg.address.v) =>
            /\ res.checksummed = expected
            /\ res.error = <<Lit("Invalid EIP-55 checksum for "), Val(ContextText(arg.context)),
                             Lit(": should be "), Val(expected)>>
       /\ IsMixedCase(arg.address.v) =>
            /\ MessageHead(res) = "Invalid address for "
            /\ Names(res, arg.address.v)
            /\ ~Names(res, expected)
            /\ "checksummed" \notin DOMAIN res

\* C15 witness: a mixed-case address with one letter of the wrong case was
\* rejected through the catch block
C15_Witness ==
  /\ IsNonCanonicalCall
  /\ IsMixedCase(arg.address.v)
  /\ ~res.valid
  /\ MessageHead(res) = "Invalid address for "

(* ---------------------------------------------------------------------- *)
(* Round trip of the checksummed field                                     *)
(* ---------------------------------------------------------------------- *)
\* C16: whenever validateEIP55Checksum returns valid: true its checksummed
\* field is the input, and every canonical non-zero address is returned so;
\* whenever validateTokenAddress returns valid: true its checksummed field is
\* both the address and the directory name.
C16_ChecksummedRoundTrip ==
  /\ op = "validateEIP55Checksum" =>
       /\ res.valid => res.checksummed = arg.address.v
       /\ (IsAddressShaped(arg.address) /\ arg.address.v # ZeroAddress
           /\ arg.address.v = getChecksumAddress(arg.address.v)) =>
            res = [valid |-> TRUE, checksummed |-> arg.address.v]
  /\ (op = "validateTokenAddress" /\ res.valid) =>
       /\ res.checksummed = arg.address.v
       /\ res.checksummed = arg.dirName.v

\* C16 witness: a checksummed address with letters of both cases was accepted
\* by validateTokenAddress under a directory of the same name
C16_Witness ==
  /\ op = "validateTokenAddress"
  /\ res.valid
  /\ IsMixedCase(arg.address.v)
  /\ res.checksummed = <<48, 120, 48, 48, 99, 49, 69, 53, 49, 53, 69, 65, 57, 53, 55, 57, 56, 53, 54, 51, 48, 52, 49, 57, 56, 69, 70, 98, 49, 53, 102, 53, 50, 53, 65, 48, 98, 98, 53, 48, 102, 54>>

\* the calls of safeReadJSON in the order the claims give them
ReaderSteps == <<"existsSync", "statSync", "readFileSync", "lengthCheck", "safeParse">>

IsPrefixOf(a, b) == Len(a) <= Len(b) /\ \A i \in 1..Len(a) : a[i] = b[i]

\* safeReadJSON has thrown an error whose message starts with the given text
ThrewWith(prefix) ==
  /\ op = "safeReadJSON"
  /\ pc = "done"
  /\ thrown # ""
  /\ res.message[1] = Lit(prefix)

\* the reader has just made the call it was at
Stepped(step) == pc = step /\ pc' # step

\* C17: safeReadJSON makes its calls in the order existence check, metadata
\* size check, read, content-length re-check, parse; a path that does not exist
\* at the existence check fails with "File not found" and neither stat nor read
\* is made; a metadata size above maxSize fails with "File too large" and the
\* contents are never read; a size equal to maxSize is not rejected as too large.
C17_ChecksInOrderBeforeRead ==
  /\ [](op = "safeReadJSON" =>
          /\ IsPrefixOf(executed, ReaderSteps)
          /\ (ThrewWith("File not found: ") =>
                executed = <<"existsSync">> /\ local = NothingHeld)
          /\ (ThrewWith("File too large: ") =>
                executed = <<"existsSync", "statSync">> /\ ~local.read)
          /\ (local.size = MaxSizeOf(arg.maxSize) => ~ThrewWith("File too large: ")))
  /\ [][(Stepped("existsSync") /\ ~file.exists) =>
          (ThrewWith("File not found: "))']_vars
  /\ [][(Stepped("statSync") /\ file.exists
           /\ ByteLength(file.content) > MaxSizeOf(arg.maxSize)) =>
          (ThrewWith("File too large: "))']_vars
  /\ [][(Stepped("statSync") /\ file.exists
           /\ ByteLength(file.content) = MaxSizeOf(arg.maxSize)) =>
          (pc' = "readFileSync" /\ thrown' = "")]_vars

\* a file whose size equals maxSize has been read and parsed
C17_Witness ==
  /\ op = "safeReadJSON"
  /\ pc = "done"
  /\ thrown = ""
  /\ local.size = MaxSizeOf(arg.maxSize)
  /\ executed = ReaderSteps

\* C18: safeReadJSON never returns a tree parsed from content of more than
\* maxSize bytes, also when another process replaces the file or makes it grow
\* between the metadata size check and the read.
C18_ReturnedTreeWithinMaxBytes ==
  (op = "safeReadJSON" /\ pc = "done" /\ thrown = "") =>
    ByteLength(local.content) <= MaxSizeOf(arg.maxSize)

\* the call in which safeReadJSON threw
ThrewIn(step) ==
  /\ op = "safeReadJSON"
  /\ pc = "done"
  /\ thrown # ""
  /\ executed # <<>>
  /\ executed[Len(executed)] = step

\* C19: every error safeReadJSON raises for a missing file (at the existence
\* check, or because the file disappeared before the size check or the read)
\* starts with "File not found: ", and every error it raises for an oversized
\* file (at the size check or at the re-check after the read) starts with
\* "File too large: ".
C19_ResourceErrorsHaveStablePrefix ==
  /\ ((ThrewIn("existsSync") \/ ThrewIn("readFileSync")
         \/ (ThrewIn("statSync") /\ local.size = -1)) =>
        ThrewWith("File not found: "))
  /\ (((ThrewIn("statSync") /\ local.size # -1) \/ ThrewIn("lengthCheck")) =>
        ThrewWith("File too large: "))

\* C20: for every value, string or not, the output of sanitizeForTerminal is a
\* string without ESC, C0 control character, DEL or C1 control character; a
\* string without such characters is returned unchanged.
C20_OutputHasNoControlCharacter ==
  op = "sanitizeForTerminal" =>
    /\ res.t = "string"
    /\ ~HasC0OrDel(res.v)
    /\ ~HasC1(res.v)
    /\ ((arg.str.t = "string" /\ ~HasC0OrDel(arg.str.v) /\ ~HasC1(arg.str.v)) =>
          res = arg.str)

(* ---------------------------------------------------------------------- *)
(* ABI: order of validation and warnings                                   *)
(* ---------------------------------------------------------------------- *)
\* the item is rejected when it is the only item of the ABI
FailsAlone(item) == ~validateABI(Arr(<<item>>), Str(<<84, 101, 115, 116>>)).valid

\* an object with a valid type and, where one is required, a valid name, and
\* no inputs, outputs or stateMutability at all
HasOnlyOmissions(item) ==
  /\ item.t = "object"
  /\ DOMAIN item \subseteq {"t", "type", "name"}
  /\ "type" \in DOMAIN item
  /\ item.type.t = "string"
  /\ ArrayIncludes(VALID_ABI_TYPES, item.type.v)
  /\ item.type.v \in {<<102, 117, 110, 99, 116, 105, 111, 110>>, <<101, 118, 101, 110, 116>>, <<101, 114, 114, 111, 114>>} =>
       /\ "name" \in DOMAIN item
       /\ item.name.t = "string"
       /\ ABI_FUNCTION_NAME_PATTERN(item.name.v)

\* the warnings the omissions of an item call for
OmissionsOf(item) ==
  LET type == Get(item, "type").v
  IN (IF type \in {<<102, 117, 110, 99, 116, 105, 111, 110>>, <<99, 111, 110, 115, 116, 114, 117, 99, 116, 111, 114>>, <<101, 118, 101, 110, 116>>} /\ ~Truthy(Get(item, "inputs"))
        THEN 1 ELSE 0)
     + (IF type = <<102, 117, 110, 99, 116, 105, 111, 110>> /\ ~Truthy(Get(item, "outputs")) THEN 1 ELSE 0)

RECURSIVE SumOmissions(_)
SumOmissions(items) ==
  IF items = <<>> THEN 0 ELSE OmissionsOf(Head(items)) + SumOmissions(Tail(items))

\* C21: validateABI examines the items in index order and returns the error
\* of the first item that fails, alone and prefixed with the contract name;
\* missing inputs or outputs and the absence of any constructor or function
\* only add warnings, so a non-empty ABI with no other defect is valid.
C21_FirstErrorOnlyOmissionsWarn ==
  (op = "validateABI" /\ arg.abi.t = "array" /\ Len(arg.abi.items) > 0) =>
    LET items == arg.abi.items
        failing == { i \in 1..Len(items) : FailsAlone(items[i]) }
        noEntryPoint ==
          \A i \in 1..Len(items) :
            Get(items[i], "type") \notin {Str(<<99, 111, 110, 115, 116, 114, 117, 99, 116, 111, 114>>), Str(<<102, 117, 110, 99, 116, 105, 111, 110>>)}
    IN /\ failing # {} =>
            /\ res = Fail(<<Val(ContractText(arg.contractName)), Lit(": ")>>
                          \o validateABIItem(items[Least(failing)], Least(failing) - 1).error)
            /\ DOMAIN res = {"valid", "error"}
       /\ failing = {} =>
            /\ res.valid
            /\ Len(res.warnings) = SumOmissions(items) + (IF noEntryPoint THEN 1 ELSE 0)
       /\ (\A i \in 1..Len(items) : HasOnlyOmissions(items[i])) => res.valid

\* two items that fail for different reasons: the error is the first one's
C21_Witness ==
  /\ op = "validateABI"
  /\ arg.abi.t = "array"
  /\ Len(arg.abi.items) = 2
  /\ FailsAlone(arg.abi.items[1])
  /\ FailsAlone(arg.abi.items[2])
  /\ Get(arg.abi.items[1], "type") # Get(arg.abi.items[2], "type")
  /\ ~res.valid

(* ---------------------------------------------------------------------- *)
(* Solidity validation                                                     *)
(* ---------------------------------------------------------------------- *)
\* a call of validateSolidityFile on a string under a name made of letters
\* and digits
IsSolidityCall ==
  /\ op = "validateSolidityFile"
  /\ arg.content.t = "string"
  /\ arg.contractName.t = "string"
  /\ arg.contractName.v # <<>>
  /\ \A i \in 1..Len(arg.contractName.v) : IsAlnum(arg.contractName.v[i])

\* C22: validateSolidityFile returns valid:false only for blank content,
\* content longer than the maximum size, a missing pragma directive or a
\* missing declaration of the expected name, checked in that order; everything
\* else only adds warnings, so content passing the four rules is valid.
C22_FourHardRulesInOrder ==
  IsSolidityCall =>
    LET s == arg.content.v
        blank == \A i \in 1..Len(s) : IsWhitespace(s[i])
        tooLong == Len(s) + arg.content.pad > MAX_SOLIDITY_FILE_SIZE
    IN /\ thrown = ""
       /\ IF blank THEN res = Fail(<<Lit("Solidity file is empty")>>)
          ELSE IF tooLong
            THEN ~res.valid /\ MessageHead(res) = "Solidity file too large: "
          ELSE IF ~HasPragma(s)
            THEN res = Fail(<<Lit("Missing pragma solidity directive")>>)
          ELSE IF ~hasDeclaration(s, arg.contractName.v)
            THEN ~res.valid /\ MessageHead(res) = "No declaration found for "
          ELSE res.valid /\ DOMAIN res = {"valid", "warnings"}

\* a valid source with at least four warnings
C22_Witness ==
  /\ IsSolidityCall
  /\ res.valid
  /\ Len(res.warnings) >= 4

\* the source has a declaration of the name: the keyword, white space, the
\* name as a whole identifier, and then either the opening brace or an
\* inheritance list (is ...) before it
DeclaresName(s, name) ==
  \E keyword \in {<<99, 111, 110, 116, 114, 97, 99, 116>>, <<105, 110, 116, 101, 114, 102, 97, 99, 101>>, <<108, 105, 98, 114, 97, 114, 121>>} :
    \E i \in 1..Len(s) :
      /\ MatchAt(s, i, keyword)
      /\ i = 1 \/ ~(IsAlnum(s[i - 1]) \/ s[i - 1] = 95)
      /\ LET k == SkipWhitespace(s, i + Len(keyword))
             after == SkipWhitespace(s, k + Len(name))
         IN /\ k > i + Len(keyword)
            /\ MatchAt(s, k, name)
            /\ after <= Len(s)
            /\ \/ s[after] = 123
               \/ /\ after > k + Len(name)
                  /\ MatchAt(s, after, <<105, 115>>)
                  /\ after + 2 <= Len(s)
                  /\ IsWhitespace(s[after + 2])

\* C23: for a name validateContractName accepts, the declaration rule passes
\* exactly when the source declares a contract, interface, library or abstract
\* contract of exactly that name, whether the brace or an inheritance list
\* follows the name.
C23_DeclarationRuleIffDeclared ==
  (IsSolidityCall /\ validateContractName(arg.contractName).valid
     /\ thrown = "" /\ (res.valid \/ MessageHead(res) = "No declaration found for ")) =>
    (res.valid <=> DeclaresName(arg.content.v, arg.contractName.v))

(* ---------------------------------------------------------------------- *)
(* Shape of the results                                                    *)
(* ---------------------------------------------------------------------- *)
\* the validators that return a result record
RecordValidators ==
  { "validateSafeFilename", "validateContractName", "safePathJoin",
    "validateEIP55Checksum", "validateAddressDirectory", "validateTokenAddress",
    "validateURLFormat", "validateURL", "validateURLs", "validateABI",
    "validateSolidityFile" }

\* a message that is a non-empty string
IsNonEmptyMessage(message) ==
  \E i \in 1..Len(message) : message[i].lit # "" \/ message[i].val # <<>>

\* valid:true without an error field, or valid:false with an error field that
\* is a non-empty string
IsWellShaped(result) ==
  /\ "valid" \in DOMAIN result
  /\ result.valid => "error" \notin DOMAIN result
  /\ ~result.valid => ("error" \in DOMAIN result /\ IsNonEmptyMessage(result.error))

\* C24: every result record a public validator returns has no error field
\* when valid is true, and an error field that is a non-empty string when
\* valid is false.
C24_ResultsWellShaped ==
  (op \in RecordValidators /\ thrown = "") => IsWellShaped(res)

\* C25: no public validator throws, whatever the type or content of its
\* arguments: each returns a boolean or a result record.
C25_ValidatorsNeverThrow ==
  (op \in RecordValidators \cup {"isBlockedHost"}) => thrown = ""

\* what the call of operation o on arguments a returns or throws
Alone(o, a) ==
  CASE o = "validateSafeFilename" -> Return(validateSafeFilename(a.filename))
    [] o = "validateContractName" -> Return(validateContractName(a.contractName))
    [] o = "safePathJoin" ->
         LET outcome == safePathJoin(a.baseDir, a.parts)
         IN [thrown |-> outcome.thrown, value |-> outcome.value]
    [] o = "validateEIP55Checksum" ->
         Return(validateEIP55Checksum(a.address, a.context).value)
    [] o = "validateAddressDirectory" ->
         LET outcome == validateAddressDirectory(a.dirName, a.parentPath)
         IN [thrown |-> outcome.thrown, value |-> outcome.value]
    [] o = "validateTokenAddress" ->
         Return(validateTokenAddress(a.address, a.dirName, a.context).value)
    [] o = "safeParse" ->
         LET outcome == safeParse(a.text, objectPrototype)
         IN [thrown |-> outcome.thrown, value |-> outcome.value]
    [] o = "validateURLFormat" -> Return(validateURLFormat(a.urlString))
    [] o = "isBlockedHost" ->
         IF a.hostname.t # "string"
           THEN Throw("TypeError", <<Lit("hostname.toLowerCase is not a function")>>)
         ELSE Return(isBlockedHost(a.hostname.v))
    [] o = "validateURL" -> Return(validateURL(a.urlString, a.fieldName))
    [] o = "validateURLs" -> Return(validateURLs(a.obj, a.urlFields).value)
    [] o = "validateABI" -> Return(validateABI(a.abi, a.contractName))
    [] o = "validateSolidityFile" -> validateSolidityFile(a.content, a.contractName)

StatelessValidators ==
  { "validateSafeFilename", "validateContractName", "safePathJoin",
    "validateEIP55Checksum", "validateAddressDirectory", "validateTokenAddress",
    "safeParse", "validateURLFormat", "isBlockedHost", "validateURL", "validateURLs",
    "validateABI", "validateSolidityFile" }

\* C26: the validators share no mutable state. After any sequence of calls
\* every shared pattern still has lastIndex 0 and Object.prototype has its
\* built-in properties, which is the state a call made alone starts in, and
\* the result of the call just made is the result the same call gives in that
\* state, so equal arguments give equal results wherever the call stands.
C26_CallsShareNoState ==
  /\ lastIndex = [pattern \in SharedPatterns |-> 0]
  /\ objectPrototype = BuiltinPrototype
  /\ op \in StatelessValidators
       => [thrown |-> thrown, value |-> res] = Alone(op, arg)

\* a call whose test of a shared pattern matched: an address in the right
\* format went through ADDRESS_PATTERN and the pattern is as it was
C26_Witness ==
  /\ op = "validateEIP55Checksum"
  /\ res.valid
  /\ ADDRESS_PATTERN(arg.address.v)
  /\ lastIndex["ADDRESS_PATTERN"] = 0

\* C27: every valid:false result names the field or context the caller
\* supplied: a failing validateURL(url, fieldName) has fieldName in its
\* message, a failing validateEIP55Checksum(address, context) and a failing
\* validateTokenAddress(address, dirName, context) have context in theirs.
C27_FailuresNameFieldOrContext ==
  /\ (op = "validateURL" /\ arg.fieldName.t = "string" /\ ~res.valid)
       => Names(res, arg.fieldName.v)
  /\ (op \in {"validateEIP55Checksum", "validateTokenAddress"}
        /\ arg.context.t = "string" /\ ~res.valid)
       => Names(res, arg.context.v)

\* the call joins parts that each pass validateSafeFilename onto a string base
IsSafeJoinCall ==
  /\ op = "safePathJoin"
  /\ arg.baseDir.t = "string"
  /\ \A i \in 1..Len(arg.parts) : validateSafeFilename(arg.parts[i]).valid

\* C28: for every baseDir, the file-system root included, and every list of
\* parts that each pass validateSafeFilename, safePathJoin succeeds and
\* returns baseDir joined with the parts in order, a path that contains every
\* part.
C28_SafePartsAlwaysJoin ==
  IsSafeJoinCall =>
    /\ thrown = ""
    /\ res.valid
    /\ res.path = path_join(<<arg.baseDir.v>> \o [i \in 1..Len(arg.parts) |-> arg.parts[i].v])
    /\ \A i \in 1..Len(arg.parts) : includes(res.path, arg.parts[i].v)

RECURSIVE WithoutReservedKeys(_)
\* a standard parse with every object member keyed by a reserved key removed,
\* at every level; the elements of an array all stay, in their places
WithoutReservedKeys(node) ==
  LET members == IF node.t = "object"
                   THEN SelectSeq(node.kids, LAMBDA m : m[1] \notin ReservedKeys)
                 ELSE node.kids
  IN [node EXCEPT !.kids = [i \in 1..Len(members) |->
                              <<members[i][1], WithoutReservedKeys(members[i][2])>>]]

\* C29: on a well-formed text safeParse returns the standard parse with every
\* member keyed __proto__, constructor or prototype removed at every level and
\* everything else as it is, so a text with no reserved key parses to the
\* standard tree; on a malformed text it throws a SyntaxError and returns
\* no tree.
C29_ParseIsStandardMinusReservedKeys ==
  op = "safeParse" =>
    IF arg.text.wellFormed
      THEN /\ thrown = ""
           /\ res = WithoutReservedKeys(arg.text.tree)
           /\ ~HasReservedKey(arg.text.tree) => res = arg.text.tree
    ELSE thrown = "SyntaxError" /\ res = Undefined

\* an array that holds an object with a reserved key was parsed: the array
\* keeps its length and the object lost the member
C29_Witness ==
  /\ op = "safeParse"
  /\ thrown = ""
  /\ arg.text.tree.t = "array"
  /\ HasReservedKey(arg.text.tree)
  /\ Len(res.kids) = Len(arg.text.tree.kids)
  /\ res # arg.text.tree

\* C30: after any sequence of logger calls the three counters equal the
\* numbers of error(), warn() and info() calls made since the last
\* resetCounters() (or since load), and that is what getCounters() returns;
\* success, debug, section, summary and getCounters change no counter, in
\* both log formats.
C30_CountersCountCalls ==
  /\ errorCount = calls.error
  /\ warningCount = calls.warn
  /\ infoCount = calls.info
  /\ op = "getCounters"
       => res = [errors |-> calls.error, warnings |-> calls.warn, info |-> calls.info]
====
